---- MODULE Spec2Model ----
(***************************************************************************)
(* A model of the Coup environment of pettingzoo_coup: the card catalogue  *)
(* and deck (card.py), the player entity (player.py), the action catalogue *)
(* (action.py), the turn state machine (state.py) and the driver           *)
(* raw_env.reset / raw_env.step (env.py).                                  *)
(*                                                                         *)
(* The environment object is the record built by Env(..); every method is  *)
(* an operator from an environment to the SET of environments it can       *)
(* leave behind (the random draws are the only nondeterminism).  A raised  *)
(* exception is recorded in the field "error" together with the mutations  *)
(* made before it was raised.  Logging, rendering, the numeric observation *)
(* vectors and n_turn (which only feeds them) are not modelled.            *)
(***************************************************************************)
EXTENDS Integers, Sequences, FiniteSets, TLC

VARIABLES cfg, turn, players, deck, agents, terminations, rewards, error,
          discard, last, prev, begin, budget, phases

vars == <<cfg, turn, players, deck, agents, terminations, rewards, error,
          discard, last, prev, begin, budget, phases>>

(***************************************************************************)
(* card.py                                                                 *)
(***************************************************************************)
CardOrder == <<"Ambassador", "Assassin", "Captain", "Contessa", "Duke">>

CARD == {CardOrder[i] : i \in 1..Len(CardOrder)}

NoCards == [c \in CARD |-> 0]

\* Counter.total() of a hand
RECURSIVE SumUpTo(_, _)
SumUpTo(cnt, i) == IF i = 0 THEN 0 ELSE cnt[CardOrder[i]] + SumUpTo(cnt, i - 1)

Total(cnt) == SumUpTo(cnt, Len(CardOrder))

\* The deck is the list deck.elements(): the keys of the Counter in insertion
\* order, each repeated count times.
CountIn(d, c) == Cardinality({i \in 1..Len(d) : d[i] = c})

RemoveAt(d, i) == [j \in 1..(Len(d) - 1) |-> IF j < i THEN d[j] ELSE d[j + 1]]

\* deck[card] += 1: an existing key grows in place, a new key goes last
DeckAdd(d, c) ==
    IF \E i \in 1..Len(d) : d[i] = c
    THEN LET k == CHOOSE i \in 1..Len(d) : d[i] = c
         IN  [j \in 1..(Len(d) + 1) |-> IF j <= k THEN d[j] ELSE d[j - 1]]
    ELSE Append(d, c)

\* np.random.randint(0, len(cards) - 1): an index in 0 .. len(cards) - 2
\* (1 .. Len - 1 here); raises ValueError when len(cards) - 1 <= 0.
DrawIndices(d) == 1..(Len(d) - 1)

\* draw(deck): the possible results [card, deck]; empty when randint raises
draw(d) == {[card |-> d[i], deck |-> RemoveAt(d, i)] : i \in DrawIndices(d)}

(***************************************************************************)
(* action.py                                                               *)
(***************************************************************************)
LoseActions == {"LOSE_AMBASSADOR", "LOSE_ASSASSIN", "LOSE_CAPTAIN",
                "LOSE_CONTESSA", "LOSE_DUKE"}

ChallengeActions == {"CHALLENGE_PASS", "CHALLENGE_CALL"}

BlockActions == {"BLOCK_PASS", "BLOCK_ASSASSINATE", "BLOCK_FOREIGN_AID",
                 "BLOCK_STEAL_AMB", "BLOCK_STEAL_CAP"}

SelfActions == {"EXCHANGE", "FOREIGN_AID", "INCOME", "TAX"}

TargetActions == {"ASSASSINATE", "COUP", "STEAL"}

AllActions == LoseActions \cup ChallengeActions \cup BlockActions
          \cup SelfActions \cup TargetActions

\* Action.type
ActType(a) ==
    IF a \in LoseActions THEN "LOSE"
    ELSE IF a \in ChallengeActions THEN "CHALLENGE"
    ELSE IF a \in BlockActions THEN "BLOCK"
    ELSE IF a \in SelfActions THEN "SELF"
    ELSE "TARGET"

\* Action.card ("None" when the action claims no role)
ActCard(a) ==
    CASE a = "LOSE_AMBASSADOR"   -> "Ambassador"
      [] a = "LOSE_ASSASSIN"     -> "Assassin"
      [] a = "LOSE_CAPTAIN"      -> "Captain"
      [] a = "LOSE_CONTESSA"     -> "Contessa"
      [] a = "LOSE_DUKE"         -> "Duke"
      [] a = "BLOCK_ASSASSINATE" -> "Contessa"
      [] a = "BLOCK_FOREIGN_AID" -> "Duke"
      [] a = "BLOCK_STEAL_AMB"   -> "Ambassador"
      [] a = "BLOCK_STEAL_CAP"   -> "Captain"
      [] a = "EXCHANGE"          -> "Ambassador"
      [] a = "TAX"               -> "Duke"
      [] a = "ASSASSINATE"       -> "Assassin"
      [] a = "STEAL"             -> "Captain"
      [] OTHER                   -> "None"

\* Action.block: the names of the legal answers of a block round
ActBlock(a) ==
    CASE a = "FOREIGN_AID" -> {"BLOCK_PASS", "BLOCK_FOREIGN_AID"}
      [] a = "ASSASSINATE" -> {"BLOCK_PASS", "BLOCK_ASSASSINATE"}
      [] a = "STEAL"       -> {"BLOCK_PASS", "BLOCK_STEAL_AMB", "BLOCK_STEAL_CAP"}
      [] OTHER             -> {}

\* action_space(num_players): the moves an index of the action space decodes to
action_space(n) ==
    {<<a, 0>> : a \in {x \in AllActions : ActType(x) # "TARGET"}}
    \cup {<<a, t>> : a \in TargetActions, t \in 1..(n - 1)}

(***************************************************************************)
(* player.py.  A player is [coins, cards, block_passed, challenge_passed,  *)
(* block_challenge_passed]; its id is its seat 0 .. num_players - 1 and    *)
(* next is the following seat of the ring.                                 *)
(***************************************************************************)
NoPlayer == 0 - 1

InitialCoins == 2

NewPlayer == [coins |-> InitialCoins, cards |-> NoCards,
              block_passed |-> FALSE, challenge_passed |-> FALSE,
              block_challenge_passed |-> FALSE]

\* Player.next (env.py sets the ring at reset)
next(n, p) == (p + 1) % n

\* Player.alive
alive(P, p) == Total(P[p].cards) > 0

\* Player.next_alive: walk the ring from the seat after p; NoPlayer stands for
\* the PlayerError raised when the walk comes back to p
RECURSIVE WalkAlive(_, _, _, _)
WalkAlive(P, n, p, q) ==
    IF q = p THEN NoPlayer
    ELSE IF alive(P, q) THEN q
    ELSE WalkAlive(P, n, p, next(n, q))

\* As next_alive, had it returned the next seat without looking at its hand
next_alive_seat(P, n, p) == next(n, p)

next_alive(P, n, p) == WalkAlive(P, n, p, next(n, p))

\* As enum, had the index advanced only past the seats it yields
enum_living(P, n, p, skip_dead, skip_self) ==
    LET yielded(j) == ~skip_dead \/ alive(P, (p + j) % n)
        rank(j)    == Cardinality({k \in 1..j : yielded(k)})
    IN  {<<0, p>> : x \in {y \in {0} : ~skip_self /\ (~skip_dead \/ alive(P, p))}}
        \cup {<<rank(i), (p + i) % n>> : i \in {j \in 1..(n - 1) : yielded(j)}}

\* Player.enum: the pairs <<relative index, seat>> it yields
enum(P, n, p, skip_dead, skip_self) ==
    {<<0, p>> : x \in {y \in {0} : ~skip_self /\ (~skip_dead \/ alive(P, p))}}
    \cup {<<i, (p + i) % n>> : i \in {j \in 1..(n - 1) :
                                        ~skip_dead \/ alive(P, (p + j) % n)}}

\* raise: the environment with the exception recorded
Raise(E, exc) == [E EXCEPT !.error = exc]

\* Player.draw
Player_draw(E, p) ==
    IF draw(E.deck) = {} THEN {Raise(E, "DrawValueError")}
    ELSE {[E EXCEPT !.deck = r.deck,
                    !.players[p].cards[r.card] = @ + 1] : r \in draw(E.deck)}

\* As putback, had it forgotten to add the card to the deck
Player_putback_lost(E, p, c) ==
    IF E.players[p].cards[c] = 0 THEN Raise(E, "AssertionError")
    ELSE [E EXCEPT !.players[p].cards[c] = @ - 1]

\* Player.putback
Player_putback(E, p, c) ==
    IF E.players[p].cards[c] = 0 THEN Raise(E, "AssertionError")
    ELSE [E EXCEPT !.players[p].cards[c] = @ - 1,
                   !.deck = DeckAdd(@, c)]

\* As lose, had it deleted the key instead of decrementing it
Player_lose_all(E, p, c) ==
    IF E.players[p].cards[c] = 0 THEN Raise(E, "AssertionError")
    ELSE [E EXCEPT !.players[p].cards[c] = 0,
                   !.discard[c] = @ + E.players[p].cards[c]]

\* As lose, had the card gone back to the deck
Player_lose_returned(E, p, c) ==
    IF E.players[p].cards[c] = 0 THEN Raise(E, "AssertionError")
    ELSE [E EXCEPT !.players[p].cards[c] = @ - 1,
                   !.deck = DeckAdd(@, c)]

\* Player.lose (the card leaves the game: counted in discard)
Player_lose(E, p, c) ==
    IF E.players[p].cards[c] = 0 THEN Raise(E, "AssertionError")
    ELSE [E EXCEPT !.players[p].cards[c] = @ - 1,
                   !.discard[c] = @ + 1]

\* Sequencing: run F on every outcome that raised nothing
Bind(S, F(_)) == UNION {IF e.error # "none" THEN {e} ELSE F(e) : e \in S}

(***************************************************************************)
(* state.py: the records and the legal-move sets                           *)
(***************************************************************************)
NoAct == [actor |-> NoPlayer, action |-> "None", target |-> NoPlayer]

NoChallenge == [type |-> "None", challenger |-> NoPlayer, loser |-> NoPlayer]

NoBlock == [blocker |-> NoPlayer, action |-> "None"]

ActInfo(actor, action, target) ==
    [actor |-> actor, action |-> action, target |-> target]

ChallengeInfo(type, challenger, loser) ==
    [type |-> type, challenger |-> challenger, loser |-> loser]

BlockInfo(blocker, action) == [blocker |-> blocker, action |-> action]

\* A state object: its class, its player (EndTurn: _player) and its records
State(type, player, act, challenge, block, block_challenge) ==
    [type |-> type, player |-> player, act |-> act, challenge |-> challenge,
     block |-> block, block_challenge |-> block_challenge]

EndTurn(act, challenge, block, block_challenge) ==
    State("EndTurn", NoPlayer, act, challenge, block, block_challenge)

\* As lose_card_mask, had it offered every LOSE move whatever the hand
lose_card_mask_all(P, p) ==
    {<<a, 0>> : a \in {x \in AllActions : ActType(x) = "LOSE"}}

lose_card_mask(P, p) ==
    {<<a, 0>> : a \in {x \in AllActions :
                         ActType(x) = "LOSE" /\ P[p].cards[ActCard(x)] > 0}}

block_mask(act) == {<<a, 0>> : a \in {x \in AllActions : x \in ActBlock(act)}}

challenge_mask == {<<a, 0>> : a \in {x \in AllActions : ActType(x) = "CHALLENGE"}}

CoupCost == 7

MustCoupCoins == 10

AssassinateCost == 3

Start_coups(P, n, p) ==
    IF P[p].coins >= CoupCost
    THEN {<<"COUP", e[1]>> : e \in enum(P, n, p, TRUE, TRUE)}
    ELSE {}

\* As Start.action_mask, without the early return of the rich player
Start_action_mask_free(P, n, p) ==
    Start_coups(P, n, p)
    \cup {<<"ASSASSINATE", e[1]>> :
            e \in {x \in enum(P, n, p, TRUE, TRUE) :
                     P[p].coins >= AssassinateCost}}
    \cup {<<"STEAL", e[1]>> :
            e \in {x \in enum(P, n, p, TRUE, TRUE) : P[x[2]].coins > 0}}
    \cup {<<a, 0>> : a \in {x \in AllActions : ActType(x) = "SELF"}}

\* As Start.action_mask, offering Steal whatever the target owns
Start_action_mask_nocoin(P, n, p) ==
    IF P[p].coins >= CoupCost /\ P[p].coins >= MustCoupCoins
    THEN Start_coups(P, n, p)
    ELSE Start_coups(P, n, p)
         \cup {<<"ASSASSINATE", e[1]>> :
                 e \in {x \in enum(P, n, p, TRUE, TRUE) :
                          P[p].coins >= AssassinateCost}}
         \cup {<<"STEAL", e[1]>> : e \in enum(P, n, p, TRUE, TRUE)}
         \cup {<<a, 0>> : a \in {x \in AllActions : ActType(x) = "SELF"}}

Start_action_mask(P, n, p) ==
    IF P[p].coins >= CoupCost /\ P[p].coins >= MustCoupCoins
    THEN Start_coups(P, n, p)
    ELSE Start_coups(P, n, p)
         \cup {<<"ASSASSINATE", e[1]>> :
                 e \in {x \in enum(P, n, p, TRUE, TRUE) :
                          P[p].coins >= AssassinateCost}}
         \cup {<<"STEAL", e[1]>> :
                 e \in {x \in enum(P, n, p, TRUE, TRUE) : P[x[2]].coins > 0}}
         \cup {<<a, 0>> : a \in {x \in AllActions : ActType(x) = "SELF"}}

LosePhases == {"ChallengeResolve", "BlockChallengeResolve", "ActionResolve",
               "ExchangeResolve", "ExchangeTwoResolve"}

\* turn.action_mask() of the current state object
action_mask(E) ==
    CASE E.turn.type = "Start" -> Start_action_mask(E.players, E.n, E.turn.player)
      [] E.turn.type \in {"Challenge", "BlockChallenge"} -> challenge_mask
      [] E.turn.type \in {"ForeignAidBlock", "TargetBlock"} ->
            block_mask(E.turn.act.action)
      [] E.turn.type \in LosePhases -> lose_card_mask(E.players, E.turn.player)
      [] OTHER -> {}

StealMax == 2

\* As resolve_steal, had it always moved StealMax coins
resolve_steal_flat(E, act) ==
    [E EXCEPT !.players[act.actor].coins = @ + StealMax,
              !.players[act.target].coins = @ - StealMax]

\* resolve_steal
resolve_steal(E, act) ==
    LET amount == IF StealMax < E.players[act.target].coins
                  THEN StealMax ELSE E.players[act.target].coins
    IN  [E EXCEPT !.players[act.actor].coins = @ + amount,
                  !.players[act.target].coins = @ - amount]

(***************************************************************************)
(* state.py: the step method of every state class.  Each takes the         *)
(* environment whose turn is an object of the class and returns the        *)
(* environments the call can leave, turn replaced by the object returned.  *)
(***************************************************************************)
IncomeGain == 1

ForeignAidGain == 2

TaxGain == 3

SetTurn(E, t) == [E EXCEPT !.turn = t]

\* A state object whose player is some other player's next_alive
ToNextAlive(E, p, type, act, challenge, block) ==
    LET na == next_alive(E.players, E.n, p)
    IN  IF na = NoPlayer THEN Raise(E, "PlayerError")
        ELSE SetTurn(E, State(type, na, act, challenge, block, NoChallenge))

\* Start.step
Start_step(E, action, target) ==
    LET p   == E.turn.player
        act == ActInfo(p, action, target)
    IN  CASE action = "INCOME" ->
               {SetTurn([E EXCEPT !.players[p].coins = @ + IncomeGain],
                        EndTurn(act, NoChallenge, NoBlock, NoChallenge))}
          [] action = "FOREIGN_AID" ->
               {ToNextAlive(E, p, "ForeignAidBlock", act, NoChallenge, NoBlock)}
          [] action = "COUP" ->
               {SetTurn([E EXCEPT !.players[p].coins = @ - CoupCost],
                        State("ActionResolve", target, act,
                              NoChallenge, NoBlock, NoChallenge))}
          [] action = "ASSASSINATE" ->
               {ToNextAlive([E EXCEPT !.players[p].coins = @ - AssassinateCost],
                            p, "Challenge", act, NoChallenge, NoBlock)}
          [] action \notin {"INCOME", "FOREIGN_AID", "COUP", "ASSASSINATE"}
             /\ ActCard(action) # "None" ->
               {ToNextAlive(E, p, "Challenge", act, NoChallenge, NoBlock)}
          [] OTHER -> {Raise(E, "InvalidState")}

\* The two draws of an Exchange, then ExchangeResolve(player=actor, act=act)
ExchangeDraws(E, act) ==
    LET second(e) == Player_draw(e, act.actor)
        enter(e)  == {SetTurn(e, State("ExchangeResolve", act.actor, act,
                                       NoChallenge, NoBlock, NoChallenge))}
    IN  Bind(Bind(Player_draw(E, act.actor), second), enter)

\* As the putback and draw of a proven claim, without the draw
ProveAndRedraw_noredraw(E, claimant, card) ==
    {Player_putback(E, claimant, card)}

\* As the putback and draw of a proven claim, without the putback
ProveAndRedraw_keep(E, claimant, card) ==
    Player_draw(E, claimant)

\* The claimant holds the claimed card: putback(card) then draw()
ProveAndRedraw(E, claimant, card) ==
    LET redraw(e) == Player_draw(e, claimant)
    IN  Bind({Player_putback(E, claimant, card)}, redraw)

\* As Challenge.step, had the first pass closed the round
Challenge_step_first(E, action) ==
    LET player == E.turn.player
        act    == E.turn.act
    IN  CASE action = "CHALLENGE_PASS" ->
               LET E1 == [E EXCEPT !.players[player].challenge_passed = TRUE]
                   na == next_alive(E1.players, E1.n, player)
               IN  IF na = NoPlayer THEN {Raise(E1, "PlayerError")}
                   ELSE IF na \in 0..(E1.n - 1)
                   THEN CASE act.action = "EXCHANGE" -> ExchangeDraws(E1, act)
                          [] act.action = "TAX" ->
                               {SetTurn([E1 EXCEPT !.players[act.actor].coins
                                                      = @ + TaxGain],
                                        EndTurn(act, NoChallenge, NoBlock,
                                                NoChallenge))}
                          [] act.action \notin {"EXCHANGE", "TAX"}
                             /\ ActBlock(act.action) # {} ->
                               {SetTurn(E1, State("TargetBlock", act.target, act,
                                                  NoChallenge, NoBlock,
                                                  NoChallenge))}
                          [] OTHER -> {Raise(E1, "InvalidState")}
                   ELSE {SetTurn(E1, [E1.turn EXCEPT !.player = na])}
          [] action = "CHALLENGE_CALL" ->
               LET actor == act.actor
                   card  == ActCard(act.action)
                   resolve(loser) ==
                       State("ChallengeResolve", loser, act,
                             ChallengeInfo("action", player, loser),
                             NoBlock, NoChallenge)
                   lost(e) == {SetTurn(e, resolve(player))}
               IN  IF card = "None" THEN {Raise(E, "AssertionError")}
                   ELSE IF E.players[actor].cards[card] > 0
                   THEN Bind(ProveAndRedraw(E, actor, card), lost)
                   ELSE {SetTurn(E, resolve(actor))}
          [] OTHER -> {Raise(E, "InvalidState")}

\* Challenge.step
Challenge_step(E, action) ==
    LET player == E.turn.player
        act    == E.turn.act
    IN  CASE action = "CHALLENGE_PASS" ->
               LET E1 == [E EXCEPT !.players[player].challenge_passed = TRUE]
                   na == next_alive(E1.players, E1.n, player)
               IN  IF na = NoPlayer THEN {Raise(E1, "PlayerError")}
                   ELSE IF na = act.actor
                   THEN CASE act.action = "EXCHANGE" -> ExchangeDraws(E1, act)
                          [] act.action = "TAX" ->
                               {SetTurn([E1 EXCEPT !.players[act.actor].coins
                                                      = @ + TaxGain],
                                        EndTurn(act, NoChallenge, NoBlock,
                                                NoChallenge))}
                          [] act.action \notin {"EXCHANGE", "TAX"}
                             /\ ActBlock(act.action) # {} ->
                               {SetTurn(E1, State("TargetBlock", act.target, act,
                                                  NoChallenge, NoBlock,
                                                  NoChallenge))}
                          [] OTHER -> {Raise(E1, "InvalidState")}
                   ELSE {SetTurn(E1, [E1.turn EXCEPT !.player = na])}
          [] action = "CHALLENGE_CALL" ->
               LET actor == act.actor
                   card  == ActCard(act.action)
                   resolve(loser) ==
                       State("ChallengeResolve", loser, act,
                             ChallengeInfo("action", player, loser),
                             NoBlock, NoChallenge)
                   lost(e) == {SetTurn(e, resolve(player))}
               IN  IF card = "None" THEN {Raise(E, "AssertionError")}
                   ELSE IF E.players[actor].cards[card] > 0
                   THEN Bind(ProveAndRedraw(E, actor, card), lost)
                   ELSE {SetTurn(E, resolve(actor))}
          [] OTHER -> {Raise(E, "InvalidState")}

\* As ChallengeResolve.step, had the Tax of a proven Duke not been paid
ChallengeResolve_step_unpaid(E, action) ==
    LET card == ActCard(action)
        act  == E.turn.act
        chl  == E.turn.challenge
        E1   == Player_lose(E, E.turn.player, card)
        end  == EndTurn(act, chl, NoBlock, NoChallenge)
    IN  IF card = "None" THEN {Raise(E, "AssertionError")}
        ELSE IF E1.error # "none" THEN {E1}
        ELSE IF chl.loser = act.actor \/ act.action = "TAX" THEN {SetTurn(E1, end)}
        ELSE IF act.action = "EXCHANGE" THEN ExchangeDraws(E1, act)
        ELSE IF act.action = "STEAL" /\ ~alive(E1.players, act.target)
        THEN {SetTurn(resolve_steal(E1, act), end)}
        ELSE IF act.action = "ASSASSINATE" /\ ~alive(E1.players, act.target)
        THEN {SetTurn(E1, end)}
        ELSE IF ActBlock(act.action) # {}
        THEN {SetTurn(E1, State("TargetBlock", act.target, act,
                                NoChallenge, NoBlock, NoChallenge))}
        ELSE {Raise(E1, "InvalidState")}

\* As ChallengeResolve.step, without the tests of a dead target
ChallengeResolve_step_blind(E, action) ==
    LET card == ActCard(action)
        act  == E.turn.act
        chl  == E.turn.challenge
        E1   == Player_lose(E, E.turn.player, card)
        end  == EndTurn(act, chl, NoBlock, NoChallenge)
    IN  IF card = "None" THEN {Raise(E, "AssertionError")}
        ELSE IF E1.error # "none" THEN {E1}
        ELSE IF chl.loser = act.actor THEN {SetTurn(E1, end)}
        ELSE IF act.action = "TAX"
        THEN {SetTurn([E1 EXCEPT !.players[act.actor].coins = @ + TaxGain], end)}
        ELSE IF act.action = "EXCHANGE" THEN ExchangeDraws(E1, act)
        ELSE IF ActBlock(act.action) # {}
        THEN {SetTurn(E1, State("TargetBlock", act.target, act,
                                NoChallenge, NoBlock, NoChallenge))}
        ELSE {Raise(E1, "InvalidState")}

\* As ChallengeResolve.step, had a caught Assassinate been paid back
ChallengeResolve_step_refund(E, action) ==
    LET card == ActCard(action)
        act  == E.turn.act
        chl  == E.turn.challenge
        E1   == Player_lose(E, E.turn.player, card)
        end  == EndTurn(act, chl, NoBlock, NoChallenge)
    IN  IF card = "None" THEN {Raise(E, "AssertionError")}
        ELSE IF E1.error # "none" THEN {E1}
        ELSE IF chl.loser = act.actor /\ act.action = "ASSASSINATE"
        THEN {SetTurn([E1 EXCEPT !.players[act.actor].coins
                                   = @ + AssassinateCost], end)}
        ELSE IF chl.loser = act.actor THEN {SetTurn(E1, end)}
        ELSE IF act.action = "TAX"
        THEN {SetTurn([E1 EXCEPT !.players[act.actor].coins = @ + TaxGain], end)}
        ELSE IF act.action = "EXCHANGE" THEN ExchangeDraws(E1, act)
        ELSE IF act.action = "STEAL" /\ ~alive(E1.players, act.target)
        THEN {SetTurn(resolve_steal(E1, act), end)}
        ELSE IF act.action = "ASSASSINATE" /\ ~alive(E1.players, act.target)
        THEN {SetTurn(E1, end)}
        ELSE IF ActBlock(act.action) # {}
        THEN {SetTurn(E1, State("TargetBlock", act.target, act,
                                NoChallenge, NoBlock, NoChallenge))}
        ELSE {Raise(E1, "InvalidState")}

\* ChallengeResolve.step
ChallengeResolve_step(E, action) ==
    LET card == ActCard(action)
        act  == E.turn.act
        chl  == E.turn.challenge
        E1   == Player_lose(E, E.turn.player, card)
        end  == EndTurn(act, chl, NoBlock, NoChallenge)
    IN  IF card = "None" THEN {Raise(E, "AssertionError")}
        ELSE IF E1.error # "none" THEN {E1}
        ELSE IF chl.loser = act.actor THEN {SetTurn(E1, end)}
        ELSE IF act.action = "TAX"
        THEN {SetTurn([E1 EXCEPT !.players[act.actor].coins = @ + TaxGain], end)}
        ELSE IF act.action = "EXCHANGE" THEN ExchangeDraws(E1, act)
        ELSE IF act.action = "STEAL" /\ ~alive(E1.players, act.target)
        THEN {SetTurn(resolve_steal(E1, act), end)}
        ELSE IF act.action = "ASSASSINATE" /\ ~alive(E1.players, act.target)
        THEN {SetTurn(E1, end)}
        ELSE IF ActBlock(act.action) # {}
        THEN {SetTurn(E1, State("TargetBlock", act.target, act,
                                NoChallenge, NoBlock, NoChallenge))}
        ELSE {Raise(E1, "InvalidState")}

\* As ForeignAidBlock.step, had the first pass closed the round
ForeignAidBlock_step_first(E, action) ==
    LET player == E.turn.player
        act    == E.turn.act
        chl    == E.turn.challenge
    IN  CASE action = "BLOCK_PASS" ->
               LET E1 == [E EXCEPT !.players[player].block_passed = TRUE]
               IN  {SetTurn([E1 EXCEPT !.players[act.actor].coins
                                          = @ + ForeignAidGain],
                            EndTurn(act, chl, NoBlock, NoChallenge))}
          [] action = "BLOCK_FOREIGN_AID" ->
               {SetTurn(E, State("BlockChallenge", player, act, chl,
                                 BlockInfo(player, "BLOCK_FOREIGN_AID"),
                                 NoChallenge))}
          [] OTHER -> {Raise(E, "InvalidState")}

\* ForeignAidBlock.step
ForeignAidBlock_step(E, action) ==
    LET player == E.turn.player
        act    == E.turn.act
        chl    == E.turn.challenge
    IN  CASE action = "BLOCK_PASS" ->
               LET E1 == [E EXCEPT !.players[player].block_passed = TRUE]
                   na == next_alive(E1.players, E1.n, player)
               IN  IF na = NoPlayer THEN {Raise(E1, "PlayerError")}
                   ELSE IF na = act.actor
                   THEN {SetTurn([E1 EXCEPT !.players[act.actor].coins
                                               = @ + ForeignAidGain],
                                 EndTurn(act, chl, NoBlock, NoChallenge))}
                   ELSE {SetTurn(E1, [E1.turn EXCEPT !.player = na])}
          [] action = "BLOCK_FOREIGN_AID" ->
               {SetTurn(E, State("BlockChallenge", player, act, chl,
                                 BlockInfo(player, "BLOCK_FOREIGN_AID"),
                                 NoChallenge))}
          [] OTHER -> {Raise(E, "InvalidState")}

\* As TargetBlock.step, had a pass on a Steal ended the turn without the transfer
TargetBlock_step_nopay(E, action) ==
    LET player == E.turn.player
        act    == E.turn.act
        chl    == E.turn.challenge
    IN  IF action = "BLOCK_PASS"
        THEN LET E1 == [E EXCEPT !.players[player].block_passed = TRUE]
             IN  IF act.action = "STEAL"
                 THEN {SetTurn(E1, EndTurn(act, chl, NoBlock, NoChallenge))}
                 ELSE IF act.action = "ASSASSINATE"
                 THEN {SetTurn(E1, State("ActionResolve", act.target, act, chl,
                                         NoBlock, NoChallenge))}
                 ELSE {Raise(E1, "InvalidState")}
        ELSE {SetTurn(E, State("BlockChallenge", player, act, chl,
                               BlockInfo(player, action), NoChallenge))}

\* TargetBlock.step
TargetBlock_step(E, action) ==
    LET player == E.turn.player
        act    == E.turn.act
        chl    == E.turn.challenge
    IN  IF action = "BLOCK_PASS"
        THEN LET E1 == [E EXCEPT !.players[player].block_passed = TRUE]
             IN  IF act.action = "STEAL"
                 THEN {SetTurn(resolve_steal(E1, act),
                               EndTurn(act, chl, NoBlock, NoChallenge))}
                 ELSE IF act.action = "ASSASSINATE"
                 THEN {SetTurn(E1, State("ActionResolve", act.target, act, chl,
                                         NoBlock, NoChallenge))}
                 ELSE {Raise(E1, "InvalidState")}
        ELSE {SetTurn(E, State("BlockChallenge", player, act, chl,
                               BlockInfo(player, action), NoChallenge))}

\* BlockChallenge.step; the round is over when the next alive player is closer
BlockChallenge_round(E, action, closer) ==
    LET player == E.turn.player
        act    == E.turn.act
        chl    == E.turn.challenge
        blk    == E.turn.block
    IN  CASE action = "CHALLENGE_PASS" ->
               LET E1 == [E EXCEPT !.players[player].challenge_passed = TRUE]
                   na == next_alive(E1.players, E1.n, player)
               IN  IF na = NoPlayer THEN {Raise(E1, "PlayerError")}
                   ELSE IF na = closer
                   THEN {SetTurn(E1, EndTurn(act, chl, blk, NoChallenge))}
                   ELSE {SetTurn(E1, [E1.turn EXCEPT !.player = na])}
          [] action = "CHALLENGE_CALL" ->
               LET blocker == blk.blocker
                   card    == ActCard(blk.action)
                   resolve(loser) ==
                       State("BlockChallengeResolve", loser, act, chl, blk,
                             ChallengeInfo("block", player, loser))
                   lost(e) == {SetTurn(e, resolve(player))}
               IN  IF card = "None" THEN {Raise(E, "AssertionError")}
                   ELSE IF E.players[blocker].cards[card] > 0
                   THEN Bind(ProveAndRedraw(E, blocker, card), lost)
                   ELSE {SetTurn(E, resolve(blocker))}
          [] OTHER -> {Raise(E, "InvalidState")}

\* As BlockChallenge.step, had the round been closed by the blocker
BlockChallenge_closed_by_blocker(E, action) ==
    BlockChallenge_round(E, action, E.turn.block.blocker)

\* As BlockChallenge.step, had a block that nobody calls still let Foreign Aid
\* and Steal through
BlockChallenge_step_through(E, action) ==
    LET act == E.turn.act
        through(e) ==
            IF action # "CHALLENGE_PASS" \/ e.error # "none"
               \/ e.turn.type # "EndTurn"
            THEN e
            ELSE IF act.action = "FOREIGN_AID"
            THEN [e EXCEPT !.players[act.actor].coins = @ + ForeignAidGain]
            ELSE IF act.action = "STEAL"
            THEN [e EXCEPT !.players = resolve_steal(e, act).players]
            ELSE e
    IN  {through(e) : e \in BlockChallenge_round(E, action, act.actor)}

\* As BlockChallenge.step, had the first pass closed the round
BlockChallenge_first_pass(E, action) ==
    BlockChallenge_round(E, action, next_alive(E.players, E.n, E.turn.player))

BlockChallenge_step(E, action) ==
    BlockChallenge_round(E, action, E.turn.act.actor)

\* As BlockChallengeResolve.step, without the test of a dead target
BlockChallengeResolve_step_blind(E, action) ==
    LET card == ActCard(action)
        act  == E.turn.act
        bchl == E.turn.block_challenge
        E1   == Player_lose(E, E.turn.player, card)
        end  == EndTurn(act, E.turn.challenge, E.turn.block, bchl)
    IN  IF card = "None" THEN {Raise(E, "AssertionError")}
        ELSE IF E1.error # "none" THEN {E1}
        ELSE IF bchl.loser = bchl.challenger THEN {SetTurn(E1, end)}
        ELSE IF act.action = "FOREIGN_AID"
        THEN {SetTurn([E1 EXCEPT !.players[act.actor].coins = @ + ForeignAidGain],
                      end)}
        ELSE IF act.action = "STEAL" THEN {SetTurn(resolve_steal(E1, act), end)}
        ELSE IF act.action = "ASSASSINATE"
        THEN {SetTurn(E1, State("ActionResolve", act.target, act,
                                E.turn.challenge, E.turn.block, bchl))}
        ELSE {Raise(E1, "InvalidState")}

\* BlockChallengeResolve.step (toEndTurn keeps all four records)
\* As BlockChallengeResolve.step, had every block stood once a card was lost
BlockChallengeResolve_step_stands(E, action) ==
    LET card == ActCard(action)
        t    == E.turn
        E1   == Player_lose(E, t.player, card)
    IN  IF card = "None" THEN {Raise(E, "AssertionError")}
        ELSE IF E1.error # "none" THEN {E1}
        ELSE {SetTurn(E1, EndTurn(t.act, t.challenge, t.block,
                                  t.block_challenge))}

BlockChallengeResolve_step(E, action) ==
    LET card == ActCard(action)
        act  == E.turn.act
        chl  == E.turn.challenge
        blk  == E.turn.block
        bchl == E.turn.block_challenge
        E1   == Player_lose(E, E.turn.player, card)
        end  == EndTurn(act, chl, blk, bchl)
    IN  IF card = "None" THEN {Raise(E, "AssertionError")}
        ELSE IF E1.error # "none" THEN {E1}
        ELSE IF bchl.loser = bchl.challenger THEN {SetTurn(E1, end)}
        ELSE IF act.action = "FOREIGN_AID"
        THEN {SetTurn([E1 EXCEPT !.players[act.actor].coins = @ + ForeignAidGain],
                      end)}
        ELSE IF act.action = "STEAL" THEN {SetTurn(resolve_steal(E1, act), end)}
        ELSE IF act.action = "ASSASSINATE"
        THEN IF ~alive(E1.players, act.target) THEN {SetTurn(E1, end)}
             ELSE {SetTurn(E1, State("ActionResolve", act.target, act, chl,
                                     blk, bchl))}
        ELSE {Raise(E1, "InvalidState")}

\* ActionResolve.step
ActionResolve_step(E, action) ==
    LET card == ActCard(action)
        t    == E.turn
        E1   == Player_lose(E, t.player, card)
    IN  IF card = "None" THEN {Raise(E, "AssertionError")}
        ELSE IF E1.error # "none" THEN {E1}
        ELSE {SetTurn(E1, EndTurn(t.act, t.challenge, t.block, t.block_challenge))}

\* As ExchangeResolve.step, had the returned card left the game
ExchangeResolve_step_lost(E, action) ==
    LET card == ActCard(action)
        t    == E.turn
        E1   == Player_lose(E, t.player, card)
    IN  IF card = "None" THEN {Raise(E, "AssertionError")}
        ELSE IF E1.error # "none" THEN {E1}
        ELSE {SetTurn(E1, State("ExchangeTwoResolve", t.player, t.act,
                                t.challenge, NoBlock, NoChallenge))}

\* ExchangeResolve.step
ExchangeResolve_step(E, action) ==
    LET card == ActCard(action)
        t    == E.turn
        E1   == Player_putback(E, t.player, card)
    IN  IF card = "None" THEN {Raise(E, "AssertionError")}
        ELSE IF E1.error # "none" THEN {E1}
        ELSE {SetTurn(E1, State("ExchangeTwoResolve", t.player, t.act,
                                t.challenge, NoBlock, NoChallenge))}

\* As ExchangeTwoResolve.step, had it ended the turn without the putback
ExchangeTwoResolve_step_kept(E, action) ==
    LET card == ActCard(action)
        t    == E.turn
    IN  IF card = "None" THEN {Raise(E, "AssertionError")}
        ELSE {SetTurn(E, EndTurn(t.act, t.challenge, NoBlock, NoChallenge))}

\* ExchangeTwoResolve.step
ExchangeTwoResolve_step(E, action) ==
    LET card == ActCard(action)
        t    == E.turn
        E1   == Player_putback(E, t.player, card)
    IN  IF card = "None" THEN {Raise(E, "AssertionError")}
        ELSE IF E1.error # "none" THEN {E1}
        ELSE {SetTurn(E1, EndTurn(t.act, t.challenge, NoBlock, NoChallenge))}

\* turn.step(action_obj, target): dispatch on the class of the state object
turn_step(E, action, target) ==
    CASE E.turn.type = "Start" -> Start_step(E, action, target)
      [] E.turn.type = "Challenge" -> Challenge_step(E, action)
      [] E.turn.type = "ChallengeResolve" -> ChallengeResolve_step(E, action)
      [] E.turn.type = "ForeignAidBlock" -> ForeignAidBlock_step(E, action)
      [] E.turn.type = "TargetBlock" -> TargetBlock_step(E, action)
      [] E.turn.type = "BlockChallenge" -> BlockChallenge_step(E, action)
      [] E.turn.type = "BlockChallengeResolve" ->
            BlockChallengeResolve_step(E, action)
      [] E.turn.type = "ActionResolve" -> ActionResolve_step(E, action)
      [] E.turn.type = "ExchangeResolve" -> ExchangeResolve_step(E, action)
      [] E.turn.type = "ExchangeTwoResolve" -> ExchangeTwoResolve_step(E, action)
      [] E.turn.type = "GameOver" -> {E}
      [] OTHER -> {Raise(E, "NotImplementedError")}

(***************************************************************************)
(* env.py: raw_env                                                         *)
(***************************************************************************)
NoneMove == <<"None", 0>>

IllegalMark == <<"illegal", 0>>

InSeq(sq, x) == \E i \in 1..Len(sq) : sq[i] = x

Without(f, x) == [a \in (DOMAIN f) \ {x} |-> f[a]]

\* __init__: the checks a configuration must pass
MinPlayers == 2

ConstructorAccepts(c) ==
    /\ c.num_players >= MinPlayers
    /\ c.num_players_alive >= MinPlayers
    /\ c.num_players_alive <= c.num_players
    /\ c.num_players_alive <= (Len(c.deck) \div 2) - 1

\* The environment object before reset()
Constructed(c) ==
    [n            |-> c.num_players,
     turn         |-> State("None", NoPlayer, NoAct, NoChallenge, NoBlock,
                            NoChallenge),
     players      |-> [p \in 0..(c.num_players - 1) |-> NewPlayer],
     deck         |-> <<>>,
     agents       |-> <<>>,
     terminations |-> [a \in {} |-> FALSE],
     rewards      |-> [a \in {} |-> 0],
     discard      |-> NoCards,
     error        |-> "none"]

\* draw(self.deck) of a dead draw: the card leaves the game
DeadDraw(E) ==
    IF draw(E.deck) = {} THEN {Raise(E, "DrawValueError")}
    ELSE {[E EXCEPT !.deck = r.deck, !.discard[r.card] = @ + 1] : r \in draw(E.deck)}

\* reset(): the loop over self.players from seat i on; chosen are the agents
RECURSIVE DealFrom(_, _, _, _)
DealFrom(E, c, chosen, i) ==
    IF i = c.num_players THEN {E}
    ELSE LET rest(e)    == DealFrom(e, c, chosen, i + 1)
             again(e)   == Player_draw(e, i)
             discard2(e) == DeadDraw(e)
         IN  IF i \in chosen
             THEN Bind(Bind(Player_draw(E, i), again), rest)
             ELSE IF c.dead_draw
             THEN Bind(Bind(DeadDraw(E), discard2), rest)
             ELSE rest(E)

\* sorted(shuffled_agents[:num_players_alive]) as a list
RECURSIVE SortedSeq(_)
SortedSeq(S) ==
    IF S = {} THEN <<>>
    ELSE LET m == CHOOSE x \in S : \A y \in S : x <= y
         IN  <<m>> \o SortedSeq(S \ {m})

\* reset()
reset(c) ==
    UNION {
      LET E0 == [Constructed(c) EXCEPT
                   !.deck = c.deck,
                   !.agents = SortedSeq(chosen),
                   !.terminations = [a \in chosen |-> FALSE],
                   !.rewards = [a \in chosen |-> 0]]
          start(e) == {SetTurn(e, State("Start", first, NoAct, NoChallenge,
                                        NoBlock, NoChallenge)) : first \in chosen}
      IN  Bind(DealFrom(E0, c, chosen, 0), start)
      : chosen \in {S \in SUBSET (0..(c.num_players - 1)) :
                      Cardinality(S) = c.num_players_alive}}

\* step(): the loop "for player in self.players" of the EndTurn branch, from
\* seat i on.  It clears the flags seat by seat and returns at the first dead
\* player still listed in agents, with that player as the EndTurn's _player.
RECURSIVE ClearAndFindDead(_, _)
ClearAndFindDead(E, i) ==
    IF i = E.n THEN [env |-> E, returned |-> FALSE]
    ELSE LET E1 == [E EXCEPT !.players[i].challenge_passed = FALSE,
                             !.players[i].block_passed = FALSE,
                             !.players[i].block_challenge_passed = FALSE]
         IN  IF ~alive(E1.players, i) /\ InSeq(E1.agents, i)
             THEN [env |-> [E1 EXCEPT !.terminations[i] = TRUE,
                                      !.turn.player = i],
                   returned |-> TRUE]
             ELSE ClearAndFindDead(E1, i + 1)

\* As the EndTurn branch of step(), without the test for a single agent left
EndTurnBranch_nowinner(E) ==
    LET r  == ClearAndFindDead(E, 0)
        E1 == r.env
    IN  IF r.returned THEN E1
        ELSE IF Len(E1.agents) > 0
        THEN ToNextAlive(E1, E1.turn.act.actor, "Start", NoAct, NoChallenge,
                         NoBlock)
        ELSE E1

\* As the EndTurn branch of step(), had a living actor kept the turn
EndTurnBranch_again(E) ==
    LET r  == ClearAndFindDead(E, 0)
        E1 == r.env
        a  == E1.turn.act.actor
    IN  IF r.returned THEN E1
        ELSE IF Len(E1.agents) = 1
        THEN LET w == E1.agents[1]
             IN  [E1 EXCEPT !.rewards[w] = 1, !.terminations[w] = TRUE,
                            !.turn.player = w]
        ELSE IF Len(E1.agents) > 0
        THEN IF alive(E1.players, a)
             THEN SetTurn(E1, State("Start", a, NoAct, NoChallenge, NoBlock,
                                    NoChallenge))
             ELSE ToNextAlive(E1, a, "Start", NoAct, NoChallenge, NoBlock)
        ELSE E1

\* As the EndTurn branch of step(), had the next turn started with the flags
\* of the turn before still standing
EndTurnBranch_uncleared(E) ==
    LET r  == ClearAndFindDead(E, 0)
        E1 == r.env
    IN  IF r.returned THEN E1
        ELSE IF Len(E1.agents) = 1
        THEN LET w == E1.agents[1]
             IN  [E1 EXCEPT !.rewards[w] = 1, !.terminations[w] = TRUE,
                            !.turn.player = w]
        ELSE IF Len(E1.agents) > 0
        THEN ToNextAlive([E1 EXCEPT !.players = E.players], E1.turn.act.actor,
                         "Start", NoAct, NoChallenge, NoBlock)
        ELSE E1

\* As the EndTurn branch of step(), had a dead agent not been given its
\* terminal step before the turn moves on
EndTurnBranch_unremoved(E) ==
    LET E1 == ClearAndFindDead(E, 0).env
    IN  IF Len(E1.agents) = 1
        THEN LET w == E1.agents[1]
             IN  [E1 EXCEPT !.rewards[w] = 1, !.terminations[w] = TRUE,
                            !.turn.player = w]
        ELSE IF Len(E1.agents) > 0
        THEN ToNextAlive(E1, E1.turn.act.actor, "Start", NoAct, NoChallenge,
                         NoBlock)
        ELSE E1

\* step(): the branch "if type(self.turn) is state.EndTurn"
EndTurnBranch(E) ==
    LET r  == ClearAndFindDead(E, 0)
        E1 == r.env
    IN  IF r.returned THEN E1
        ELSE IF Len(E1.agents) = 1
        THEN LET w == E1.agents[1]
             IN  [E1 EXCEPT !.rewards[w] = 1, !.terminations[w] = TRUE,
                            !.turn.player = w]
        ELSE IF Len(E1.agents) > 0
        THEN ToNextAlive(E1, E1.turn.act.actor, "Start", NoAct, NoChallenge,
                         NoBlock)
        ELSE E1

AfterStep(E) ==
    IF E.error = "none" /\ E.turn.type = "EndTurn" THEN EndTurnBranch(E) ELSE E

\* step(None): remove the terminated agent
step_none(E) ==
    LET agent == E.turn.player
    IN  IF E.turn.type # "EndTurn" THEN Raise(E, "AssertionError")
        ELSE IF agent = NoPlayer THEN Raise(E, "InvalidState")
        ELSE IF ~InSeq(E.agents, agent) THEN Raise(E, "RemoveValueError")
        ELSE [E EXCEPT !.agents = SelectSeq(@, LAMBDA x : x # agent),
                       !.terminations = Without(@, agent),
                       !.rewards = Without(@, agent)]

\* As step(action), without the test of the action mask
step_move_unchecked(E, move) ==
    LET player == E.turn.player
        target == (player + move[2]) % E.n
    IN  IF E.turn.type = "GameOver" THEN {Raise(E, "NotImplementedError")}
        ELSE IF player = NoPlayer THEN {Raise(E, "InvalidState")}
        ELSE IF ~alive(E.players, target) THEN {Raise(E, "RuntimeError")}
        ELSE turn_step(E, move[1], target)

\* step(action) for an index of the action space, decoded to move = (action, tgt)
step_move(E, move) ==
    LET player == E.turn.player
        target == (player + move[2]) % E.n
    IN  IF E.turn.type = "GameOver" THEN {Raise(E, "NotImplementedError")}
        ELSE IF player = NoPlayer THEN {Raise(E, "InvalidState")}
        ELSE IF move \notin action_mask(E) THEN {Raise(E, "IllegalMove")}
        ELSE IF ~alive(E.players, target) THEN {Raise(E, "RuntimeError")}
        ELSE turn_step(E, move[1], target)

\* raw_env.step
step(E, move) ==
    LET E0 == [E EXCEPT !.error = "none"]
    IN  IF move = NoneMove THEN {AfterStep(step_none(E0))}
        ELSE {AfterStep(e) : e \in step_move(E0, move)}

(***************************************************************************)
(* The state machine.  The environment object is spread over the variables *)
(* cfg .. error; discard counts the cards that left the game.  Five more   *)
(* variables record the run: last is the move the driver submitted in the  *)
(* latest step, prev the environment that step started from, begin the     *)
(* environment at the Start of the latest turn played, phases the classes  *)
(* of the states stepped from since that Start (it included), and budget   *)
(* the number of turns still explored (Unbounded: no limit).               *)
(***************************************************************************)
Env ==
    [n |-> cfg.num_players, turn |-> turn, players |-> players, deck |-> deck,
     agents |-> agents, terminations |-> terminations, rewards |-> rewards,
     discard |-> discard, error |-> error]

Holds(e) ==
    /\ turn = e.turn
    /\ players = e.players
    /\ deck = e.deck
    /\ agents = e.agents
    /\ terminations = e.terminations
    /\ rewards = e.rewards
    /\ discard = e.discard
    /\ error = e.error

Install(e) ==
    /\ turn' = e.turn
    /\ players' = e.players
    /\ deck' = e.deck
    /\ agents' = e.agents
    /\ terminations' = e.terminations
    /\ rewards' = e.rewards
    /\ discard' = e.discard
    /\ error' = e.error
    /\ prev' = Env
    /\ begin' = IF turn.type = "Start" THEN [Env EXCEPT !.error = "none"]
                ELSE begin
    /\ phases' = (IF turn.type = "Start" THEN {} ELSE phases) \cup {turn.type}

Config(n, k, dd, d) ==
    [num_players |-> n, num_players_alive |-> k, dead_draw |-> dd, deck |-> d]

Unbounded == 0 - 1

\* Runs is a set of pairs <<configuration, budget>>
InitWith(Runs) ==
    \E r \in {x \in Runs : ConstructorAccepts(x[1])} :
        /\ cfg = r[1]
        /\ Holds(Constructed(r[1]))
        /\ last = NoneMove
        /\ prev = Constructed(r[1])
        /\ begin = Constructed(r[1])
        /\ budget = r[2]
        /\ phases = {}

\* An IllegalMove is recoverable: the driver asks again
Running == error \in {"none", "IllegalMove"}

\* env.reset()
Reset ==
    /\ turn.type = "None"
    /\ error = "none"
    /\ \E e \in reset(cfg) : Install(e)
    /\ last' = NoneMove
    /\ UNCHANGED <<cfg, budget>>

\* env.step(action) with a legal action, in a state of class type
Step(type) ==
    /\ Running
    /\ turn.type = type
    /\ \E move \in action_mask(Env) :
         /\ \E e \in step(Env, move) : Install(e)
         /\ last' = move
    /\ UNCHANGED cfg

StartStep ==
    /\ budget # 0
    /\ Step("Start")
    /\ budget' = IF budget > 0 THEN budget - 1 ELSE budget

ChallengeStep == Step("Challenge") /\ UNCHANGED budget

ChallengeResolveStep == Step("ChallengeResolve") /\ UNCHANGED budget

ForeignAidBlockStep == Step("ForeignAidBlock") /\ UNCHANGED budget

TargetBlockStep == Step("TargetBlock") /\ UNCHANGED budget

BlockChallengeStep == Step("BlockChallenge") /\ UNCHANGED budget

BlockChallengeResolveStep == Step("BlockChallengeResolve") /\ UNCHANGED budget

ActionResolveStep == Step("ActionResolve") /\ UNCHANGED budget

ExchangeResolveStep == Step("ExchangeResolve") /\ UNCHANGED budget

ExchangeTwoResolveStep == Step("ExchangeTwoResolve") /\ UNCHANGED budget

\* env.step(None): the driver's answer to a terminated agent
StepNone ==
    /\ Running
    /\ turn.type = "EndTurn"
    /\ turn.player # NoPlayer
    /\ InSeq(agents, turn.player)
    /\ terminations[turn.player]
    /\ \E e \in step(Env, NoneMove) : Install(e)
    /\ last' = NoneMove
    /\ UNCHANGED <<cfg, budget>>

\* env.step(action) with an action of the action space that is not legal
IllegalStep ==
    /\ Running
    /\ turn.type # "None"
    /\ agents # <<>>
    /\ \E move \in action_space(cfg.num_players) \ action_mask(Env) :
         \E e \in step(Env, move) : Install(e)
    /\ last' = IllegalMark
    /\ UNCHANGED <<cfg, budget>>

\* The driver of examples/run.py and tests/test_logged_run.py: it samples the
\* action from the action mask, and answers a terminated agent with None
Next ==
    \/ Reset
    \/ StartStep
    \/ ChallengeStep
    \/ ChallengeResolveStep
    \/ ForeignAidBlockStep
    \/ TargetBlockStep
    \/ BlockChallengeStep
    \/ BlockChallengeResolveStep
    \/ ActionResolveStep
    \/ ExchangeResolveStep
    \/ ExchangeTwoResolveStep
    \/ StepNone

\* A driver that may also submit any other index of the action space
NextAny == Next \/ IllegalStep

(***************************************************************************)
(* The configurations explored.  A deck is the list of the elements of the *)
(* Counter built from the deck argument.                                   *)
(***************************************************************************)
MaxTurns == 3

TwoRoleDeck7 == <<"Captain", "Captain", "Captain", "Duke", "Duke", "Duke", "Duke">>

TwoRoleDeck9 == <<"Captain", "Captain", "Captain", "Captain",
                  "Duke", "Duke", "Duke", "Duke", "Duke">>

OneRoleDeck(c, k) == [i \in 1..k |-> c]

\* The first turns of two players, and of two players at a table of three
\* seats with a dead draw for the unused seat
Init ==
    InitWith({<<Config(2, 2, FALSE, TwoRoleDeck7), MaxTurns>>,
              <<Config(3, 2, TRUE, OneRoleDeck("Duke", 9)), MaxTurns>>})

Spec == Init /\ [][Next]_vars

\* Whole games of two players, at tables of two and of three seats
InitDeep ==
    InitWith({<<Config(2, 2, FALSE, OneRoleDeck("Duke", 7)), Unbounded>>,
              <<Config(2, 2, FALSE, OneRoleDeck("Captain", 7)), Unbounded>>,
              <<Config(3, 2, FALSE, OneRoleDeck("Duke", 9)), Unbounded>>})

SpecDeep == InitDeep /\ [][Next]_vars

\* The first turns of three players
InitThree ==
    InitWith({<<Config(3, 3, FALSE, TwoRoleDeck9), MaxTurns - 1>>,
              <<Config(3, 3, FALSE, OneRoleDeck("Duke", 9)), MaxTurns + 1>>})

SpecThree == InitThree /\ [][Next]_vars

\* The first turns of three players who all hold Captains
InitCaptains ==
    InitWith({<<Config(3, 3, FALSE, OneRoleDeck("Captain", 9)), MaxTurns + 1>>})

SpecCaptains == InitCaptains /\ [][Next]_vars

\* Games on the smallest deck the constructor accepts for two players, with
\* and without a dead draw for an unused seat, next to a deck one card larger
InitTight ==
    InitWith({<<Config(2, 2, FALSE, OneRoleDeck("Duke", 6)), Unbounded>>,
              <<Config(3, 2, TRUE, OneRoleDeck("Duke", 6)), Unbounded>>,
              <<Config(2, 2, FALSE, OneRoleDeck("Duke", 7)), MaxTurns>>})

SpecTight == InitTight /\ [][Next]_vars

\* Whole games with a driver that also submits illegal moves
InitAny == InitWith({<<Config(2, 2, FALSE, OneRoleDeck("Duke", 7)), Unbounded>>})

SpecAny == InitAny /\ [][NextAny]_vars

\* Whole games of a driver that never stops stepping (env.agent_iter)
SpecFair == InitDeep /\ [][Next]_vars /\ WF_vars(Next)

(***************************************************************************)
(* Properties.  prev and last make a step visible in the state reached:    *)
(* StepOf(type) says the latest step was a legal move submitted in a state *)
(* of class type and raised nothing.                                       *)
(***************************************************************************)
Seats == DOMAIN players

InGame == turn.type # "None"

StepOf(type) ==
    /\ prev.turn.type = type
    /\ last \notin {NoneMove, IllegalMark}
    /\ error = "none"

RECURSIVE SumHeld(_, _, _)
SumHeld(P, c, i) == IF i = 0 THEN 0 ELSE P[i - 1].cards[c] + SumHeld(P, c, i - 1)

LoseMoves == {<<a, 0>> : a \in LoseActions}

\* C1: for every role, the copies in the deck, the copies held by the players
\* and the copies that left the game (lost, or dead-drawn at reset) add up to
\* the copies of the configured deck, in every state from reset on.
Conservation ==
    InGame =>
        \A c \in CARD :
            CountIn(deck, c) + SumHeld(players, c, cfg.num_players) + discard[c]
                = CountIn(cfg.deck, c)

\* A game with a dead draw in which a card was also lost and one put back
ConservationWitness ==
    /\ cfg.dead_draw
    /\ Total(discard) >= 3
    /\ prev.turn.type = "ExchangeTwoResolve"
    /\ error = "none"

\* C2: every phase but EndTurn has one responder, who is a seat of the table
\* holding at least one card, and a non-empty legal-move set; a card-loss
\* phase is never entered for a player with an empty hand.
SingleResponder ==
    (InGame /\ turn.type \notin {"EndTurn", "GameOver"}) =>
        /\ turn.player \in Seats
        /\ alive(players, turn.player)
        /\ action_mask(Env) # {}
        /\ turn.type \in LosePhases =>
             /\ Total(players[turn.player].cards) >= 1
             /\ action_mask(Env) \subseteq LoseMoves

\* A card-loss phase whose responder is down to the last card
SingleResponderWitness ==
    /\ turn.type = "ActionResolve"
    /\ Total(players[turn.player].cards) = 1
    /\ \E q \in Seats : ~alive(players, q)

\* C3: at Start with 10 or more coins the legal moves are Coup moves only,
\* exactly one for each living other player.
MustCoup ==
    (turn.type = "Start" /\ players[turn.player].coins >= 10) =>
        LET p      == turn.player
            others == {q \in Seats : q # p /\ alive(players, q)}
            mask   == action_mask(Env)
        IN  /\ \A m \in mask : m[1] = "COUP" /\ m[2] \in 1..(cfg.num_players - 1)
            /\ {(p + m[2]) % cfg.num_players : m \in mask} = others
            /\ Cardinality(mask) = Cardinality(others)

\* A player starts a turn with 10 or more coins
MustCoupWitness ==
    /\ turn.type = "Start"
    /\ players[turn.player].coins >= 10
    /\ cfg.num_players = 3

\* C4: a step that resolves a Steal moves min(2, the target's coins) from the
\* target to the actor, leaves the target at 0 or more, and changes no other
\* player's coins, no hand but the one of the player who loses a card in that
\* step, and not the deck; a Steal turn changes coins in no other step.
StealTurn == prev.turn.act.action = "STEAL" /\ last \notin {NoneMove, IllegalMark}

StealResolved ==
    /\ StealTurn
    /\ error = "none"
    /\ \/ prev.turn.type = "TargetBlock" /\ last[1] = "BLOCK_PASS"
       \/ /\ prev.turn.type = "BlockChallengeResolve"
          /\ prev.turn.block_challenge.loser # prev.turn.block_challenge.challenger
       \/ /\ prev.turn.type = "ChallengeResolve"
          /\ prev.turn.challenge.loser # prev.turn.act.actor
          /\ ~alive(players, prev.turn.act.target)

StealAmount ==
    IF prev.players[prev.turn.act.target].coins < 2
    THEN prev.players[prev.turn.act.target].coins ELSE 2

StealBound ==
    StealTurn =>
        LET act == prev.turn.act
            moved == IF StealResolved THEN StealAmount ELSE 0
        IN  /\ players[act.actor].coins = prev.players[act.actor].coins + moved
            /\ players[act.target].coins = prev.players[act.target].coins - moved
            /\ players[act.target].coins >= 0
            /\ \A q \in Seats \ {act.actor, act.target} :
                   players[q].coins = prev.players[q].coins
            /\ StealResolved =>
                 /\ deck = prev.deck
                 /\ \A q \in Seats :
                        players[q].cards =
                            IF prev.turn.type \in LosePhases /\ q = prev.turn.player
                            THEN [prev.players[q].cards
                                    EXCEPT ![ActCard(last[1])] = @ - 1]
                            ELSE prev.players[q].cards

\* A Steal from a target with one coin is resolved, a third player looking on
StealBoundWitness ==
    /\ StealResolved
    /\ prev.players[prev.turn.act.target].coins = 1
    /\ \E q \in Seats \ {prev.turn.act.actor, prev.turn.act.target} :
           alive(players, q)

\* C5: a Call in Challenge against a role the actor holds leads to
\* ChallengeResolve with the challenger as responder and recorded loser and
\* leaves the actor's number of held cards as before the Call; the step of
\* that ChallengeResolve takes exactly one card from the challenger.
HonestCall(type, claimant, card) ==
    /\ prev.turn.type = type
    /\ last = <<"CHALLENGE_CALL", 0>>
    /\ card # "None"
    /\ prev.players[claimant].cards[card] > 0

FailedChallenge ==
    /\ HonestCall("Challenge", prev.turn.act.actor, ActCard(prev.turn.act.action)) =>
         /\ error = "none"
         /\ turn.type = "ChallengeResolve"
         /\ turn.player = prev.turn.player
         /\ turn.challenge = ChallengeInfo("action", prev.turn.player,
                                           prev.turn.player)
         /\ Total(players[prev.turn.act.actor].cards)
                = Total(prev.players[prev.turn.act.actor].cards)
    /\ (/\ prev.turn.type = "ChallengeResolve"
        /\ last \in LoseMoves
        /\ prev.turn.challenge.loser = prev.turn.challenge.challenger) =>
         /\ error = "none"
         /\ prev.turn.player = prev.turn.challenge.challenger
         /\ Total(players[prev.turn.player].cards)
                = Total(prev.players[prev.turn.player].cards) - 1

\* The challenger of a proven claim has just lost a card
FailedChallengeWitness ==
    /\ StepOf("ChallengeResolve")
    /\ prev.turn.challenge.loser = prev.turn.challenge.challenger
    /\ prev.turn.challenge.loser # prev.turn.act.actor

\* C6 (as amended): after a Call against a role the claimant holds (the actor
\* in Challenge, the blocker in BlockChallenge) the claimant holds as many
\* cards as before the Call: one copy of the claimed role went to the deck and
\* one card of the deck came back to the hand.  The count of every role is as
\* before only when the replacement is of the claimed role.
Claimant ==
    IF prev.turn.type = "Challenge" THEN prev.turn.act.actor
    ELSE prev.turn.block.blocker

ClaimedCard ==
    IF prev.turn.type = "Challenge" THEN ActCard(prev.turn.act.action)
    ELSE ActCard(prev.turn.block.action)

ProvenClaim ==
    /\ prev.turn.type \in {"Challenge", "BlockChallenge"}
    /\ HonestCall(prev.turn.type, Claimant, ClaimedCard)

RedrawKeepsSize ==
    ProvenClaim =>
        LET returned == DeckAdd(prev.deck, ClaimedCard)
        IN  /\ error = "none"
            /\ Total(players[Claimant].cards) = Total(prev.players[Claimant].cards)
            /\ \E d \in CARD :
                 /\ CountIn(returned, d) > 0
                 /\ CountIn(deck, d) = CountIn(returned, d) - 1
                 /\ players[Claimant].cards =
                        [[prev.players[Claimant].cards
                            EXCEPT ![ClaimedCard] = @ - 1] EXCEPT ![d] = @ + 1]

\* C6 as stated: the claimant's count of every role is as before the Call
RedrawKeepsComposition ==
    ProvenClaim =>
        \A c \in CARD :
            players[Claimant].cards[c] = prev.players[Claimant].cards[c]

\* A blocker proved the block and drew a card of another role
RedrawWitness ==
    /\ ProvenClaim
    /\ prev.turn.type = "BlockChallenge"
    /\ players[Claimant].cards[ClaimedCard]
           = prev.players[Claimant].cards[ClaimedCard] - 1

\* C7 (as amended): a game need not end, since turns that remove no card can
\* be repeated for ever.  What the cards in play bound is the number of losses:
\* every step of ChallengeResolve, BlockChallengeResolve and ActionResolve
\* takes exactly one card out of the responder's hand and out of the game, no
\* other step after reset takes a card out of the game, and a game of N
\* players loses at most 2N - 1 cards.
AliveSeats == {q \in Seats : alive(players, q)}

DeadDrawn == IF cfg.dead_draw THEN 2 * (cfg.num_players - cfg.num_players_alive)
             ELSE 0

LossSteps == {"ChallengeResolve", "BlockChallengeResolve", "ActionResolve"}

LossBound ==
    InGame =>
        /\ Total(discard) - DeadDrawn <= 2 * cfg.num_players_alive - 1
        /\ (prev.turn.type \in LossSteps /\ last \in LoseMoves) =>
             /\ error = "none"
             /\ Total(discard) = Total(prev.discard) + 1
             /\ Total(players[prev.turn.player].cards)
                    = Total(prev.players[prev.turn.player].cards) - 1
        /\ (prev.turn.type \notin LossSteps \cup {"None"}) =>
             Total(discard) = Total(prev.discard)

\* C7 as stated: every game reaches a state with at most one alive player
Decided == InGame /\ (Cardinality(AliveSeats) <= 1 \/ ~Running)

Termination == <>Decided

\* The winner is down to the last card: 2N - 1 cards were lost
LossBoundWitness ==
    /\ InGame
    /\ Total(discard) - DeadDrawn = 2 * cfg.num_players_alive - 1
    /\ Cardinality(AliveSeats) = 1

\* C8: a move outside the legal-move set raises and leaves the phase, the
\* responder, every player's coins, cards and flags, the deck, the agents and
\* their terminations and rewards as they were.
IllegalMoveRejected ==
    last = IllegalMark =>
        /\ error = "IllegalMove"
        /\ [Env EXCEPT !.error = "none"] = [prev EXCEPT !.error = "none"]

\* An illegal move was submitted while a challenger had to lose a card
IllegalMoveWitness ==
    /\ last = IllegalMark
    /\ turn.type = "ChallengeResolve"
    /\ players[turn.player].coins > InitialCoins

\* C9 (as amended): the target offset of a targeted move counts seats, not
\* living players: offset k stands for the seat k places after the actor,
\* eliminated and unused seats included; step resolves it to that seat, and
\* the legal moves offer exactly the offsets of the living other seats (for
\* Steal: those with a coin).
SeatAt(p, k) == (p + k) % cfg.num_players

Offsets == 1..(cfg.num_players - 1)

TargetOffsetsCountSeats ==
    /\ turn.type = "Start" =>
         LET p    == turn.player
             mask == action_mask(Env)
         IN  /\ \A m \in mask : m[1] \in TargetActions =>
                    m[2] \in Offsets /\ alive(players, SeatAt(p, m[2]))
             /\ players[p].coins >= CoupCost =>
                    {m[2] : m \in {x \in mask : x[1] = "COUP"}}
                        = {k \in Offsets : alive(players, SeatAt(p, k))}
             /\ players[p].coins < MustCoupCoins =>
                    {m[2] : m \in {x \in mask : x[1] = "STEAL"}}
                        = {k \in Offsets : /\ alive(players, SeatAt(p, k))
                                           /\ players[SeatAt(p, k)].coins > 0}
    /\ (prev.turn.type = "Start" /\ last[1] \in TargetActions) =>
         /\ error = "none"
         /\ turn.act = ActInfo(prev.turn.player, last[1],
                               SeatAt(prev.turn.player, last[2]))

\* C9 as stated: offset k is the k-th living player after the actor
LivingUpTo(p, k) == {j \in 1..k : alive(players, SeatAt(p, j))}

TargetOffsetsCountLiving ==
    turn.type = "Start" =>
        \A m \in action_mask(Env) : m[1] \in TargetActions =>
            Cardinality(LivingUpTo(turn.player, m[2])) = m[2]

\* The actor stole from the player two seats on, over an unused seat
TargetOffsetsWitness ==
    /\ StepOf("Start")
    /\ last = <<"STEAL", 2>>
    /\ ~alive(players, SeatAt(prev.turn.player, 1))
    /\ turn.act.target = SeatAt(prev.turn.player, 2)

\* C10 (as amended): the actor of the blocked action never answers the block:
\* the responder of every BlockChallenge state is a living player other than
\* the actor, and so is the recorded challenger.  The round starts with the
\* blocker itself, so the challenger of a block can be the blocker.
ActorNeverAnswersBlock ==
    /\ turn.type = "BlockChallenge" =>
         /\ turn.player # turn.act.actor
         /\ turn.block.blocker # turn.act.actor
         /\ alive(players, turn.player)
    /\ (turn.type = "BlockChallenge"
        /\ prev.turn.type \in {"ForeignAidBlock", "TargetBlock"}) =>
         /\ turn.player = turn.block.blocker
         /\ turn.player = prev.turn.player
    /\ turn.type = "BlockChallengeResolve" =>
         /\ turn.block_challenge.challenger # turn.act.actor
         /\ turn.block_challenge.type = "block"

\* C10 as stated: the responder of a BlockChallenge state, and the recorded
\* challenger of a block, is never the blocker
BlockerNeverAnswersBlock ==
    /\ turn.type = "BlockChallenge" => turn.player # turn.block.blocker
    /\ turn.type = "BlockChallengeResolve" =>
         turn.block_challenge.challenger # turn.block.blocker

\* A blocker called its own block and has to lose a card for it
ActorNeverAnswersWitness ==
    /\ turn.type = "BlockChallengeResolve"
    /\ turn.block_challenge.challenger = turn.block.blocker
    /\ turn.player = turn.block.blocker

(***************************************************************************)
(* Properties of whole turns.  TurnEnded says the latest step was the last *)
(* of a turn, whose records are those of TurnOf; begin is the environment  *)
(* the turn started from.                                                  *)
(***************************************************************************)
TurnEnded ==
    /\ error = "none"
    /\ last \notin {NoneMove, IllegalMark}
    /\ prev.turn.type \notin {"None", "EndTurn"}
    /\ turn.type \in {"Start", "EndTurn"}

TurnAct ==
    IF prev.turn.type = "Start"
    THEN ActInfo(prev.turn.player, last[1], SeatAt(prev.turn.player, last[2]))
    ELSE prev.turn.act

LostInStep(q) ==
    IF q = prev.turn.player /\ prev.turn.type \in LossSteps /\ last \in LoseMoves
    THEN [prev.players[q].cards EXCEPT ![ActCard(last[1])] = @ - 1]
    ELSE prev.players[q].cards

\* The step at which a targeted action would resolve: the challenger of the
\* action, or the blocker whose block was refuted, has given up a card
WouldResolve ==
    /\ last \in LoseMoves
    /\ error = "none"
    /\ prev.turn.act.action \in {"STEAL", "ASSASSINATE"}
    /\ \/ /\ prev.turn.type = "ChallengeResolve"
          /\ prev.turn.challenge.loser # prev.turn.act.actor
       \/ /\ prev.turn.type = "BlockChallengeResolve"
          /\ prev.turn.block_challenge.loser # prev.turn.block_challenge.challenger

DeadTarget == WouldResolve /\ ~alive(players, prev.turn.act.target)

\* C11 (as amended): when the target of a Steal or an Assassinate holds no
\* card at the moment the action would resolve, the turn ends in that step, no
\* further card is lost and nobody else is targeted.  An Assassinate moves no
\* coins; a Steal is still resolved against the eliminated target: min(2, its
\* coins) go from the target to the actor.
DeadTargetEndsTurn ==
    DeadTarget =>
        LET act   == prev.turn.act
            moved == IF act.action = "STEAL" THEN StealAmount ELSE 0
        IN  /\ TurnEnded
            /\ deck = prev.deck
            /\ \A q \in Seats : players[q].cards = LostInStep(q)
            /\ players[act.actor].coins = prev.players[act.actor].coins + moved
            /\ players[act.target].coins = prev.players[act.target].coins - moved
            /\ \A q \in Seats \ {act.actor, act.target} :
                   players[q].coins = prev.players[q].coins

\* C11 as stated: with a dead target the turn ends and no coins move
DeadTargetNoEffect ==
    DeadTarget =>
        /\ TurnEnded
        /\ \A q \in Seats : /\ players[q].coins = prev.players[q].coins
                            /\ players[q].cards = LostInStep(q)

\* The target of a Steal lost its last card for a failed challenge and its
\* coins went to the actor
DeadTargetWitness ==
    /\ DeadTarget
    /\ prev.turn.act.action = "STEAL"
    /\ prev.turn.type = "ChallengeResolve"
    /\ players[prev.turn.act.actor].coins > prev.players[prev.turn.act.actor].coins

\* C12: when the actor plays Tax holding a Duke and the first responder
\* Calls, the phases are Challenge(challenger), ChallengeResolve(challenger),
\* turn end; at turn end the challenger holds one card fewer and the actor as
\* many cards as at the start of the turn, the actor has exactly 3 coins more,
\* and the next Start belongs to the next alive player after the actor.
FirstResponder(E, actor) == next_alive(E.players, E.n, actor)

HonestTaxCalled(t) ==
    /\ t.act.action = "TAX"
    /\ begin.players[t.act.actor].cards["Duke"] > 0
    /\ t.challenge = ChallengeInfo("action", FirstResponder(begin, t.act.actor),
                                   FirstResponder(begin, t.act.actor))

HonestTaxTurn ==
    /\ (StepOf("Start") /\ last[1] = "TAX") =>
         /\ turn.type = "Challenge"
         /\ turn.player = FirstResponder(prev, prev.turn.player)
         /\ players = prev.players
    /\ (/\ prev.turn.type = "Challenge"
        /\ prev.turn.act.action = "TAX"
        /\ last = <<"CHALLENGE_CALL", 0>>
        /\ prev.turn.player = FirstResponder(begin, prev.turn.act.actor)
        /\ begin.players[prev.turn.act.actor].cards["Duke"] > 0) =>
         /\ error = "none"
         /\ turn.type = "ChallengeResolve"
         /\ turn.player = prev.turn.player
         /\ HonestTaxCalled(turn)
    /\ (/\ prev.turn.type = "ChallengeResolve"
        /\ HonestTaxCalled(prev.turn)
        /\ last \in LoseMoves) =>
         LET actor      == prev.turn.act.actor
             challenger == prev.turn.challenge.challenger
         IN  /\ TurnEnded
             /\ Total(players[challenger].cards)
                    = Total(begin.players[challenger].cards) - 1
             /\ Total(players[actor].cards) = Total(begin.players[actor].cards)
             /\ players[actor].coins = begin.players[actor].coins + 3
             /\ \A q \in Seats \ {actor} : players[q].coins = begin.players[q].coins
             /\ IF alive(players, challenger)
                THEN turn.type = "Start" /\ turn.player = challenger
                ELSE turn.type = "EndTurn" /\ turn.player = challenger
    /\ (/\ prev.turn.type = "EndTurn"
        /\ last = NoneMove
        /\ HonestTaxCalled(prev.turn)
        /\ turn.type = "Start") =>
         turn.player = next_alive(players, cfg.num_players, prev.turn.act.actor)

\* The Tax of a proven Duke was paid and the challenger, a card down, starts
\* the next turn with a third player looking on
HonestTaxWitness ==
    /\ prev.turn.type = "ChallengeResolve"
    /\ HonestTaxCalled(prev.turn)
    /\ TurnEnded
    /\ turn.type = "Start"
    /\ Cardinality(AliveSeats) = 3

\* C13: a Coup takes exactly 7 coins from the actor and goes straight to
\* ActionResolve with the target as responder, no challenge and no block on
\* record; the target's loss of a card ends the turn; if it was the target's
\* last card the target is terminated and the None step removes it from the
\* agents, and if one agent is left that agent is declared the winner.
CoupTurn ==
    /\ (prev.turn.type = "Start" /\ last[1] = "COUP") =>
         LET actor == prev.turn.player
         IN  /\ error = "none"
             /\ turn = State("ActionResolve", SeatAt(actor, last[2]),
                             ActInfo(actor, "COUP", SeatAt(actor, last[2])),
                             NoChallenge, NoBlock, NoChallenge)
             /\ players = [prev.players EXCEPT ![actor].coins = @ - 7]
             /\ players[actor].coins >= 0
             /\ deck = prev.deck
    /\ (/\ prev.turn.type = "ActionResolve"
        /\ prev.turn.act.action = "COUP"
        /\ last \in LoseMoves) =>
         LET target == prev.turn.act.target
         IN  /\ TurnEnded
             /\ prev.turn.player = target
             /\ \A q \in Seats : /\ players[q].cards = LostInStep(q)
                                 /\ players[q].coins = prev.players[q].coins
             /\ Total(players[target].cards) = Total(prev.players[target].cards) - 1
             /\ IF alive(players, target)
                THEN turn.type = "Start"
                ELSE /\ turn.type = "EndTurn"
                     /\ turn.player = target
                     /\ terminations[target]
                     /\ InSeq(agents, target)
    /\ (/\ prev.turn.type = "EndTurn"
        /\ last = NoneMove
        /\ prev.turn.act.action = "COUP"
        /\ ~alive(prev.players, prev.turn.player)) =>
         /\ error = "none"
         /\ ~InSeq(agents, prev.turn.player)
         /\ Len(agents) = Len(prev.agents) - 1
         /\ IF Len(agents) = 1
            THEN /\ turn.type = "EndTurn"
                 /\ turn.player = agents[1]
                 /\ alive(players, agents[1])
                 /\ rewards[agents[1]] = 1
                 /\ terminations[agents[1]]
            ELSE turn.type = "Start"

\* The target of a Coup lost its last card, was removed, and the actor won
CoupWitness ==
    /\ prev.turn.type = "EndTurn"
    /\ last = NoneMove
    /\ prev.turn.act.action = "COUP"
    /\ ~alive(prev.players, prev.turn.player)
    /\ Len(agents) = 1
    /\ rewards[agents[1]] = 1
    /\ agents[1] = prev.turn.act.actor

\* C14: in a game of a configuration the constructor accepts no draw fails,
\* neither at reset nor in a later step (the two draws of an Exchange, the
\* replacement draw after a proven claim).
DrawNeverFails == error # "DrawValueError"

\* C15 (as amended): no player ever holds more than 4 cards, and only the
\* actor of an Exchange holds more than 2: at most 4 in ExchangeResolve (the
\* two cards drawn on top of the hand) and at most 3 in ExchangeTwoResolve;
\* the only other state with 3 cards in a hand is the one left behind by an
\* Exchange whose second draw raised.
HandSize(q) == Total(players[q].cards)

ExchangePhases == {"ExchangeResolve", "ExchangeTwoResolve"}

HandBound ==
    InGame =>
        \A q \in Seats :
            /\ HandSize(q) \in 0..4
            /\ HandSize(q) > 2 =>
                 /\ turn.act = ActInfo(q, "EXCHANGE", q)
                 /\ CASE turn.type = "ExchangeResolve" ->
                           turn.player = q /\ HandSize(q) \in 3..4
                      [] turn.type = "ExchangeTwoResolve" ->
                           turn.player = q /\ HandSize(q) = 3
                      [] OTHER -> error = "DrawValueError" /\ HandSize(q) = 3
            /\ (turn.type = "ExchangeResolve" /\ turn.player = q) =>
                 HandSize(q) = Total(begin.players[q].cards) + 2
            /\ (turn.type = "ExchangeTwoResolve" /\ turn.player = q) =>
                 HandSize(q) = Total(begin.players[q].cards) + 1

\* C15 as stated, in the states reached without an exception: 0 to 2 cards
\* outside the exchange phases and never more than 3
HandBoundThree ==
    (InGame /\ error = "none") =>
        \A q \in Seats :
            /\ HandSize(q) \in 0..3
            /\ turn.type \notin ExchangePhases => HandSize(q) \in 0..2

\* The actor of an Exchange holds four cards in ExchangeResolve
HandBoundWitness ==
    /\ turn.type = "ExchangeResolve"
    /\ HandSize(turn.player) = 4
    /\ StepOf("Challenge")

\* C16: a player whose hand is empty keeps an empty hand in every later state
\* of the game, and is never the responder of a Start, Challenge, block,
\* BlockChallenge or card-loss phase.
RespondedPhases ==
    {"Start", "Challenge", "ForeignAidBlock", "TargetBlock", "BlockChallenge"}
    \cup LosePhases

EliminationIrreversible ==
    /\ \A q \in Seats :
           (prev.turn.type # "None" /\ ~alive(prev.players, q)) =>
               /\ ~alive(players, q)
               /\ players[q].cards = NoCards
    /\ turn.type \in RespondedPhases =>
           /\ alive(players, turn.player)
           /\ prev.turn.type # "None" => alive(prev.players, turn.player)

\* A player was eliminated and removed, and the challenge round of a later
\* turn passed over its seat
EliminationWitness ==
    \E q \in Seats :
        /\ ~alive(players, q)
        /\ ~InSeq(agents, q)
        /\ turn.type = "Challenge"
        /\ turn.act.actor = (q + cfg.num_players - 1) % cfg.num_players
        /\ turn.player = next(cfg.num_players, q)

\* C17: once a turn has ended with at most one player alive and the last
\* agent has been removed, the current phase is GameOver.
GameEnded ==
    /\ InGame
    /\ error = "none"
    /\ Cardinality(AliveSeats) <= 1
    /\ agents = <<>>

GameOverReached == GameEnded => turn.type = "GameOver"

\* The part of C17 the code keeps: no Start phase with at most one player alive
NoStartAfterEnd == (InGame /\ Cardinality(AliveSeats) <= 1) => turn.type # "Start"

\* C18: for a Start player with fewer than 10 coins the legal moves are exactly
\* Income, ForeignAid, Tax and Exchange; Assassinate on each living other player
\* iff the actor has at least 3 coins; Steal on each living other player iff
\* that player has at least 1 coin; Coup on each living other player iff the
\* actor has at least 7 coins. No move targets the actor or a cardless player.
LivingOthers(p) == {k \in Offsets : Total(players[SeatAt(p, k)].cards) > 0}

StartMovesBelowTen(p) ==
    {<<"INCOME", 0>>, <<"FOREIGN_AID", 0>>, <<"TAX", 0>>, <<"EXCHANGE", 0>>}
    \cup {<<"ASSASSINATE", k>> :
            k \in {j \in LivingOthers(p) : players[p].coins >= 3}}
    \cup {<<"STEAL", k>> :
            k \in {j \in LivingOthers(p) : players[SeatAt(p, j)].coins >= 1}}
    \cup {<<"COUP", k>> :
            k \in {j \in LivingOthers(p) : players[p].coins >= 7}}

StartMoves ==
    (turn.type = "Start" /\ players[turn.player].coins < 10) =>
        /\ action_mask(Env) = StartMovesBelowTen(turn.player)
        /\ \A m \in action_mask(Env) :
               m[1] \in {"ASSASSINATE", "STEAL", "COUP"} =>
                   /\ SeatAt(turn.player, m[2]) # turn.player
                   /\ Total(players[SeatAt(turn.player, m[2])].cards) > 0

\* A Start player who can afford every action, at a table with a cardless seat
\* and a living player who owns nothing
StartMovesWitness ==
    /\ turn.type = "Start"
    /\ players[turn.player].coins \in 7..9
    /\ \E q \in Seats : ~alive(players, q)
    /\ \E q \in Seats \ {turn.player} : alive(players, q) /\ players[q].coins = 0

\* C19: when a block is declared and every player polled in BlockChallenge
\* passes, the turn ends and the action has no effect: no coins move except the
\* 3 coins the actor paid for Assassinate, which are not returned, and no cards
\* change except through a challenge of the action that failed before the block
\* (its challenger is one card short and the actor redrew the card it showed).
BlockStood ==
    /\ TurnEnded
    /\ prev.turn.type = "BlockChallenge"
    /\ last[1] = "CHALLENGE_PASS"

PaidUpFront(q) ==
    IF q = TurnAct.actor /\ TurnAct.action = "ASSASSINATE"
    THEN AssassinateCost ELSE 0

CoinsAsBegun ==
    \A q \in Seats : players[q].coins = begin.players[q].coins - PaidUpFront(q)

ShortOfBegin == {q \in Seats : players[q].cards # begin.players[q].cards}

BlockStands ==
    BlockStood =>
        /\ CoinsAsBegun
        /\ \A q \in Seats \ {TurnAct.actor} :
               \/ players[q].cards = begin.players[q].cards
               \/ /\ HandSize(q) = Total(begin.players[q].cards) - 1
                  /\ ShortOfBegin \subseteq {q, TurnAct.actor}
                  /\ TurnAct.action \in {"STEAL", "ASSASSINATE"}
        /\ HandSize(TurnAct.actor) = Total(begin.players[TurnAct.actor].cards)
        /\ Len(deck) = Len(begin.deck)
        /\ ShortOfBegin \subseteq {TurnAct.actor} =>
               /\ ShortOfBegin = {}
               /\ deck = begin.deck
               /\ discard = begin.discard

\* C19 as stated: the coins paid for Assassinate are the only change of the turn
BlockStandsOnly ==
    BlockStood =>
        /\ CoinsAsBegun
        /\ \A q \in Seats : players[q].cards = begin.players[q].cards

\* An Assassinate among three living players was blocked and the block stood
BlockStandsWitness ==
    /\ BlockStood
    /\ TurnAct.action = "ASSASSINATE"
    /\ players[TurnAct.actor].coins = begin.players[TurnAct.actor].coins - 3
    /\ Cardinality(AliveSeats) = 3

\* C20: uncontested coin actions pay a fixed amount to the actor only. Income
\* adds exactly 1 coin at once and ends the turn; ForeignAid adds exactly 2 coins
\* when every living other player has passed the block round, Tax exactly 3
\* coins when every living other player has passed the challenge round, and
\* nothing before that; no other player's coins and no player's cards change.
PaidOnly(actor, gain) ==
    /\ players[actor].coins = begin.players[actor].coins + gain
    /\ \A q \in Seats \ {actor} : players[q].coins = begin.players[q].coins
    /\ \A q \in Seats : players[q].cards = begin.players[q].cards
    /\ deck = begin.deck

OthersOf(actor) == {q \in AliveSeats : q # actor}

PassesIn(type, pass) ==
    /\ error = "none"
    /\ prev.turn.type = type
    /\ last[1] = pass

CoinActions ==
    /\ (error = "none" /\ prev.turn.type = "Start" /\ last[1] = "INCOME") =>
           /\ TurnEnded
           /\ PaidOnly(prev.turn.player, 1)
    /\ (PassesIn("ForeignAidBlock", "BLOCK_PASS")) =>
           LET actor == prev.turn.act.actor
               all   == \A q \in OthersOf(actor) :
                            q = prev.turn.player \/ prev.players[q].block_passed
           IN  /\ prev.turn.act.action = "FOREIGN_AID"
               /\ all <=> TurnEnded
               /\ PaidOnly(actor, IF all THEN 2 ELSE 0)
    /\ (PassesIn("Challenge", "CHALLENGE_PASS") /\ prev.turn.act.action = "TAX") =>
           LET actor == prev.turn.act.actor
               all   == \A q \in OthersOf(actor) :
                            q = prev.turn.player \/ prev.players[q].challenge_passed
           IN  /\ all <=> TurnEnded
               /\ PaidOnly(actor, IF all THEN 3 ELSE 0)

\* Foreign Aid was paid after two living players passed the block round
CoinActionsWitness ==
    /\ PassesIn("ForeignAidBlock", "BLOCK_PASS")
    /\ TurnEnded
    /\ Cardinality(OthersOf(prev.turn.act.actor)) = 2
    /\ players[prev.turn.act.actor].coins
         = begin.players[prev.turn.act.actor].coins + 2

\* C21: after every turn that ends with two or more players alive the next
\* Start belongs to the first living seat after the previous turn's actor, also
\* when that actor was eliminated in the turn; nobody takes two turns in a row.
\* Until that Start exists the turn waits for the removal of a dead agent.
FirstLivingAfter(a) ==
    LET ks == {k \in Offsets : Total(players[SeatAt(a, k)].cards) > 0}
    IN  IF ks = {} THEN NoPlayer
        ELSE SeatAt(a, CHOOSE k \in ks : \A j \in ks : k <= j)

TurnRotation ==
    /\ (turn.type = "Start" /\ begin.turn.type = "Start") =>
           /\ turn.player = FirstLivingAfter(begin.turn.player)
           /\ turn.player # begin.turn.player
    /\ (turn.type = "EndTurn" /\ error = "none"
        /\ Cardinality(AliveSeats) >= 2) =>
           /\ turn.player # NoPlayer
           /\ ~alive(players, turn.player)
           /\ InSeq(agents, turn.player)
           /\ terminations[turn.player]
    /\ (prev.turn.type = "EndTurn" /\ turn.type = "Start") =>
           turn.player = FirstLivingAfter(prev.turn.act.actor)

\* The actor lost its last card in its own turn and the turn passed on, over a
\* seat that was already empty
TurnRotationWitness ==
    /\ turn.type = "Start"
    /\ begin.turn.type = "Start"
    /\ prev.turn.type = "EndTurn"
    /\ ~alive(players, begin.turn.player)
    /\ alive(begin.players, begin.turn.player)

\* A turn passed over the seat of a player eliminated in an earlier turn
TurnRotationSkips ==
    /\ turn.type = "Start"
    /\ begin.turn.type = "Start"
    /\ alive(players, begin.turn.player)
    /\ turn.player # next(cfg.num_players, begin.turn.player)

\* C22: in a Challenge or ForeignAidBlock round the responders are the living
\* players other than the actor, polled one at a time in seating order from the
\* first living seat after the actor, each at most once; the action resolves by
\* all-pass only after the last of them has passed, and a Call or a declared
\* block ends the round at once.
PollRounds == {"Challenge", "ForeignAidBlock"}

OffsetOf(a, q) == (q + cfg.num_players - a) % cfg.num_players

\* The living seats strictly between the actor and q, in seating order from a
LivingBefore(P, a, q) ==
    {r \in Seats : /\ Total(P[r].cards) > 0
                   /\ OffsetOf(a, r) \in 1..(OffsetOf(a, q) - 1)}

LivingAfter(P, a, q) ==
    {r \in Seats : /\ Total(P[r].cards) > 0
                   /\ OffsetOf(a, r) > OffsetOf(a, q)}

PassedIn(type) ==
    IF type = "Challenge" THEN {q \in Seats : players[q].challenge_passed}
    ELSE {q \in Seats : players[q].block_passed}

PollingOrder ==
    /\ turn.type \in PollRounds =>
           /\ turn.player # turn.act.actor
           /\ Total(players[turn.player].cards) > 0
           /\ PassedIn(turn.type) = LivingBefore(players, turn.act.actor, turn.player)
    /\ (prev.turn.type = "Start" /\ turn.type \in PollRounds) =>
           /\ turn.act.actor = prev.turn.player
           /\ LivingBefore(players, turn.act.actor, turn.player) = {}
    /\ (prev.turn.type \in PollRounds /\ error = "none"
        /\ last[1] \in {"CHALLENGE_PASS", "BLOCK_PASS"}) =>
           IF LivingAfter(prev.players, prev.turn.act.actor, prev.turn.player) = {}
           THEN turn.type \notin PollRounds
           ELSE /\ turn.type = prev.turn.type
                /\ turn.act = prev.turn.act
                /\ OffsetOf(turn.act.actor, turn.player)
                     > OffsetOf(turn.act.actor, prev.turn.player)
                /\ \A q \in Seats : /\ players[q].coins = prev.players[q].coins
                                    /\ players[q].cards = prev.players[q].cards
    /\ (prev.turn.type \in PollRounds /\ error = "none"
        /\ last[1] \in {"CHALLENGE_CALL", "BLOCK_FOREIGN_AID"}) =>
           /\ turn.type = IF prev.turn.type = "Challenge" THEN "ChallengeResolve"
                          ELSE "BlockChallenge"
           /\ PassedIn(prev.turn.type)
                = LivingBefore(players, prev.turn.act.actor, prev.turn.player)

\* The second of three living players is polled after the first has passed
PollingOrderWitness ==
    /\ turn.type \in PollRounds
    /\ prev.turn.type = turn.type
    /\ Cardinality(AliveSeats) = 3
    /\ PassedIn(turn.type) = {prev.turn.player}

\* A round passed over an empty seat
PollingSkipsWitness ==
    /\ turn.type \in PollRounds
    /\ \E q \in Seats : /\ ~alive(players, q)
                        /\ OffsetOf(turn.act.actor, q)
                             < OffsetOf(turn.act.actor, turn.player)

\* C23 (as amended): a block stands by all-pass only after the blocker itself
\* and every living player seated after the blocker and before the actor of the
\* blocked action have been polled, in that order, and have passed.  The actor
\* is never polled, nor is a living player seated between actor and blocker.
BlockPolled(P, blk, act) ==
    {r \in Seats : /\ Total(P[r].cards) > 0
                   /\ OffsetOf(blk.blocker, r) < OffsetOf(blk.blocker, act.actor)}

BlockRound ==
    /\ turn.type = "BlockChallenge" =>
           /\ turn.player \in BlockPolled(players, turn.block, turn.act)
           /\ turn.block.blocker \in BlockPolled(players, turn.block, turn.act)
    /\ (turn.type = "BlockChallenge" /\ prev.turn.type # "BlockChallenge") =>
           turn.player = turn.block.blocker
    /\ (prev.turn.type = "BlockChallenge" /\ error = "none"
        /\ last[1] = "CHALLENGE_PASS") =>
           LET blk  == prev.turn.block
               act  == prev.turn.act
               left == {r \in BlockPolled(prev.players, blk, act) :
                          OffsetOf(blk.blocker, r)
                            > OffsetOf(blk.blocker, prev.turn.player)}
           IN  IF left = {}
               THEN TurnEnded
               ELSE /\ turn.type = "BlockChallenge"
                    /\ turn.block = blk
                    /\ turn.act = act
                    /\ turn.player \in left
                    /\ \A r \in left : OffsetOf(blk.blocker, turn.player)
                                         <= OffsetOf(blk.blocker, r)
    /\ (BlockStood /\ prev.turn.act.action = "FOREIGN_AID") =>
           {q \in Seats : prev.players[q].challenge_passed} \cup {prev.turn.player}
             = BlockPolled(prev.players, prev.turn.block, prev.turn.act)

\* C23 as stated: when a block stands every living player other than the
\* blocker, the actor included, has passed in the round
BlockUnanimous ==
    BlockStood =>
        \A q \in AliveSeats \ {prev.turn.block.blocker} :
            q = prev.turn.player \/ prev.players[q].challenge_passed

\* A block stood after the blocker and the player seated after it had passed
BlockRoundWitness ==
    /\ BlockStood
    /\ Cardinality(AliveSeats) = 3
    /\ prev.turn.player # prev.turn.block.blocker
    /\ prev.players[prev.turn.block.blocker].challenge_passed

\* C24: whenever a Call is made in BlockChallenge and the blocker holds no card
\* of the role its block claims, the blocker loses a card and the original
\* action takes effect: ForeignAid pays the actor 2, Steal transfers coins,
\* Assassinate proceeds against a still-living target; the block never stands.
BluffedBlockCalled ==
    /\ error = "none"
    /\ turn.type = "BlockChallengeResolve"
    /\ prev.turn.type = "BlockChallenge"
    /\ prev.players[turn.block.blocker].cards[ActCard(turn.block.action)] = 0

Min(a, b) == IF a < b THEN a ELSE b

\* The step out of the current state applies the action of the current turn
ActionTakesEffect ==
    LET act   == turn.act
        ended == turn'.type \in {"Start", "EndTurn"}
        gain  == CASE act.action = "FOREIGN_AID" -> 2
                   [] act.action = "STEAL" -> Min(2, players[act.target].coins)
                   [] OTHER -> 0
    IN  /\ players'[act.actor].coins = players[act.actor].coins + gain
        /\ act.action = "STEAL" =>
               players'[act.target].coins = players[act.target].coins - gain
        /\ IF act.action = "ASSASSINATE" /\ Total(players'[act.target].cards) > 0
           THEN turn'.type = "ActionResolve" /\ turn'.player = act.target
           ELSE ended

BlockDefeatedStep ==
    (BluffedBlockCalled /\ error' = "none") =>
        /\ turn.player = turn.block.blocker
        /\ Total(players'[turn.block.blocker].cards)
             = Total(players[turn.block.blocker].cards) - 1
        /\ ActionTakesEffect

BluffedBlockDefeated == [][BlockDefeatedStep]_vars

\* The part of C24 the code keeps: a bluffed block called by another player
BluffedBlockDefeatedByOther ==
    [][turn.block_challenge.challenger # turn.block.blocker => BlockDefeatedStep]_vars

\* Another player called a bluffed block
BluffedBlockWitness ==
    /\ BluffedBlockCalled
    /\ turn.block_challenge.challenger # turn.block.blocker

\* C25: in BlockChallengeResolve the loser discards one card; if the loser is
\* the challenger the turn ends and the block stands (no effect of the action);
\* otherwise the action is applied: ForeignAid gives the actor exactly 2 coins
\* and ends the turn, Steal transfers the coins and ends the turn, Assassinate
\* moves to ActionResolve on the target if it still holds a card and ends the
\* turn otherwise.
BlockResolved ==
    /\ error = "none"
    /\ prev.turn.type = "BlockChallengeResolve"
    /\ last \in LoseMoves

CoinsMoved(from, to, amount) ==
    \A q \in Seats :
        players[q].coins = prev.players[q].coins
                           + (IF q = to THEN amount ELSE 0)
                           - (IF q = from THEN amount ELSE 0)

BlockResolveOutcome ==
    BlockResolved =>
        LET act  == prev.turn.act
            bchl == prev.turn.block_challenge
        IN  /\ prev.turn.player = bchl.loser
            /\ \A q \in Seats : players[q].cards = LostInStep(q)
            /\ HandSize(bchl.loser) = Total(prev.players[bchl.loser].cards) - 1
            /\ deck = prev.deck
            /\ IF bchl.loser = bchl.challenger
               THEN TurnEnded /\ CoinsMoved(NoPlayer, NoPlayer, 0)
               ELSE CASE act.action = "FOREIGN_AID" ->
                           TurnEnded /\ CoinsMoved(NoPlayer, act.actor, 2)
                      [] act.action = "STEAL" ->
                           /\ TurnEnded
                           /\ CoinsMoved(act.target, act.actor,
                                         Min(2, prev.players[act.target].coins))
                      [] act.action = "ASSASSINATE" ->
                           /\ CoinsMoved(NoPlayer, NoPlayer, 0)
                           /\ IF HandSize(act.target) > 0
                              THEN /\ turn.type = "ActionResolve"
                                   /\ turn.player = act.target
                                   /\ turn.act = act
                              ELSE TurnEnded
                      [] OTHER -> FALSE

\* A blocker that claimed a Contessa lost a card to another player's call and,
\* still holding a card, has to answer the Assassinate
BlockResolveWitness ==
    /\ BlockResolved
    /\ prev.turn.act.action = "ASSASSINATE"
    /\ prev.turn.block_challenge.loser # prev.turn.block_challenge.challenger
    /\ turn.type = "ActionResolve"

\* The blocker lost its last card and the Assassinate ended there
BlockResolveDeadWitness ==
    /\ BlockResolved
    /\ prev.turn.act.action = "ASSASSINATE"
    /\ prev.turn.block_challenge.loser # prev.turn.block_challenge.challenger
    /\ HandSize(prev.turn.act.target) = 0

\* C26: whenever a Call is made in Challenge and the actor holds no card of the
\* claimed role, the actor is the loser, loses exactly one card, and the turn
\* ends with no effect of the action: no coins are gained, no card is drawn,
\* the target loses no coins and no card, no block phase is entered, and the 3
\* coins paid for an Assassinate are not returned.
BluffCalled ==
    /\ error = "none"
    /\ prev.turn.type = "Challenge"
    /\ last[1] = "CHALLENGE_CALL"
    /\ prev.players[prev.turn.act.actor].cards[ActCard(prev.turn.act.action)] = 0

BluffPaid ==
    /\ error = "none"
    /\ prev.turn.type = "ChallengeResolve"
    /\ prev.turn.challenge.loser = prev.turn.act.actor
    /\ last \in LoseMoves

CaughtBluff ==
    /\ BluffCalled =>
           /\ turn.type = "ChallengeResolve"
           /\ turn.player = turn.act.actor
           /\ turn.act = prev.turn.act
           /\ turn.challenge = ChallengeInfo("action", prev.turn.player, turn.act.actor)
           /\ \A q \in Seats : /\ players[q].coins = prev.players[q].coins
                               /\ players[q].cards = prev.players[q].cards
           /\ deck = prev.deck
    /\ (turn.type = "ChallengeResolve" /\ turn.challenge.loser = turn.act.actor) =>
           /\ prev.turn.type = "Challenge"
           /\ players[turn.act.actor].cards[ActCard(turn.act.action)] = 0
    /\ BluffPaid =>
           LET actor == prev.turn.act.actor
           IN  /\ TurnEnded
               /\ prev.turn.player = actor
               /\ HandSize(actor) = Total(begin.players[actor].cards) - 1
               /\ players[actor].cards = LostInStep(actor)
               /\ \A q \in Seats \ {actor} :
                      players[q].cards = begin.players[q].cards
               /\ deck = begin.deck
               /\ CoinsAsBegun

\* An Assassinate claimed without an Assassin was called: the actor is a card
\* and 3 coins short, the target untouched
CaughtBluffWitness ==
    /\ BluffPaid
    /\ prev.turn.act.action = "ASSASSINATE"
    /\ players[prev.turn.act.actor].coins
         = begin.players[prev.turn.act.actor].coins - 3
    /\ players[prev.turn.act.target] = begin.players[prev.turn.act.target]

\* C27: in TargetBlock the only responder is the target of the action; its
\* legal moves are exactly BLOCK_PASS and the blocks of the action (Steal:
\* BLOCK_STEAL_AMB, BLOCK_STEAL_CAP; Assassinate: BLOCK_ASSASSINATE).  A pass on
\* a Steal transfers the coins and ends the turn; a pass on an Assassinate
\* moves to ActionResolve, where the target loses exactly one card; a block
\* enters BlockChallenge with the target recorded as blocker.
BlocksOf(action) ==
    CASE action = "STEAL" -> {"BLOCK_STEAL_AMB", "BLOCK_STEAL_CAP"}
      [] action = "ASSASSINATE" -> {"BLOCK_ASSASSINATE"}
      [] OTHER -> {}

TargetAnswered ==
    /\ error = "none"
    /\ prev.turn.type = "TargetBlock"
    /\ last \notin {NoneMove, IllegalMark}

Untouched ==
    /\ \A q \in Seats : /\ players[q].coins = prev.players[q].coins
                        /\ players[q].cards = prev.players[q].cards
    /\ deck = prev.deck

TargetBlockPhase ==
    /\ turn.type = "TargetBlock" =>
           /\ turn.act.action \in {"STEAL", "ASSASSINATE"}
           /\ turn.player = turn.act.target
           /\ turn.player # turn.act.actor
           /\ action_mask(Env)
                = {<<b, 0>> : b \in {"BLOCK_PASS"} \cup BlocksOf(turn.act.action)}
    /\ (TargetAnswered /\ last[1] = "BLOCK_PASS") =>
           LET act == prev.turn.act
           IN  IF act.action = "STEAL"
               THEN /\ TurnEnded
                    /\ CoinsMoved(act.target, act.actor,
                                  Min(2, prev.players[act.target].coins))
                    /\ \A q \in Seats : players[q].cards = prev.players[q].cards
                    /\ deck = prev.deck
               ELSE /\ turn.type = "ActionResolve"
                    /\ turn.player = act.target
                    /\ turn.act = act
                    /\ Untouched
    /\ (TargetAnswered /\ last[1] # "BLOCK_PASS") =>
           /\ last[1] \in BlocksOf(prev.turn.act.action)
           /\ turn.type = "BlockChallenge"
           /\ turn.act = prev.turn.act
           /\ turn.block = BlockInfo(prev.turn.act.target, last[1])
           /\ Untouched
    /\ (error = "none" /\ prev.turn.type = "ActionResolve"
        /\ prev.turn.act.action = "ASSASSINATE" /\ last \in LoseMoves) =>
           /\ TurnEnded
           /\ prev.turn.player = prev.turn.act.target
           /\ \A q \in Seats : players[q].cards = LostInStep(q)
           /\ HandSize(prev.turn.act.target)
                = Total(prev.players[prev.turn.act.target].cards) - 1
           /\ CoinsMoved(NoPlayer, NoPlayer, 0)

\* The target let an Assassinate pass and gave up a card for it
TargetBlockWitness ==
    /\ prev.turn.type = "ActionResolve"
    /\ prev.turn.act.action = "ASSASSINATE"
    /\ prev.turn.block = NoBlock
    /\ last \in LoseMoves
    /\ TurnEnded

\* C28: an Exchange that takes effect draws two cards and has the actor return
\* exactly two, one in ExchangeResolve and one in ExchangeTwoResolve, each of a
\* role then held; at the end of the turn the actor's hand and the deck count
\* as many cards as before the two draws.
ExchangeDrawn ==
    /\ error = "none"
    /\ turn.type = "ExchangeResolve"
    /\ prev.turn.type \in {"Challenge", "ChallengeResolve"}

ExchangeReturned(type) ==
    /\ error = "none"
    /\ prev.turn.type = type
    /\ last \in LoseMoves

\* The step moved one card of the role chosen from the actor's hand to the deck
ReturnedOne ==
    LET actor == prev.turn.player
        card  == ActCard(last[1])
    IN  /\ actor = prev.turn.act.actor
        /\ prev.players[actor].cards[card] > 0
        /\ players[actor].cards
             = [prev.players[actor].cards EXCEPT ![card] = @ - 1]
        /\ \A c \in CARD :
               CountIn(deck, c) = CountIn(prev.deck, c) + (IF c = card THEN 1 ELSE 0)
        /\ Len(deck) = Len(prev.deck) + 1
        /\ discard = prev.discard
        /\ \A q \in Seats \ {actor} : players[q].cards = prev.players[q].cards
        /\ CoinsMoved(NoPlayer, NoPlayer, 0)

ExchangeNeutral ==
    /\ ExchangeDrawn =>
           LET actor == turn.act.actor
           IN  /\ turn.act.action = "EXCHANGE"
               /\ turn.player = actor
               /\ HandSize(actor) = Total(LostInStep(actor)) + 2
               /\ Len(deck) = Len(prev.deck) - 2
               /\ \A c \in CARD :
                      players[actor].cards[c] + CountIn(deck, c)
                        = LostInStep(actor)[c] + CountIn(prev.deck, c)
    /\ ExchangeReturned("ExchangeResolve") =>
           /\ ReturnedOne
           /\ turn.type = "ExchangeTwoResolve"
           /\ turn.player = prev.turn.player
    /\ ExchangeReturned("ExchangeTwoResolve") =>
           LET actor == prev.turn.act.actor
           IN  /\ ReturnedOne
               /\ TurnEnded
               /\ HandSize(actor) = Total(begin.players[actor].cards)
               /\ Len(deck) = Len(begin.deck)
               /\ \A c \in CARD :
                      players[actor].cards[c] + CountIn(deck, c)
                        = begin.players[actor].cards[c] + CountIn(begin.deck, c)

\* An Exchange ended with the actor holding other roles than it started with
ExchangeNeutralWitness ==
    /\ ExchangeReturned("ExchangeTwoResolve")
    /\ TurnEnded
    /\ players[prev.turn.act.actor].cards # begin.players[prev.turn.act.actor].cards
    /\ HandSize(prev.turn.act.actor) = 2

\* C29: in every card-loss or card-return phase (ChallengeResolve,
\* BlockChallengeResolve, ActionResolve, ExchangeResolve, ExchangeTwoResolve)
\* the legal moves are exactly one LOSE move per distinct role the responder
\* holds: a role held twice yields one move, a role not held yields none.
LoseMoveOf(c) ==
    CASE c = "Ambassador" -> <<"LOSE_AMBASSADOR", 0>>
      [] c = "Assassin"   -> <<"LOSE_ASSASSIN", 0>>
      [] c = "Captain"    -> <<"LOSE_CAPTAIN", 0>>
      [] c = "Contessa"   -> <<"LOSE_CONTESSA", 0>>
      [] c = "Duke"       -> <<"LOSE_DUKE", 0>>

RolesHeld(q) == {c \in CARD : players[q].cards[c] >= 1}

LoseMoveSet ==
    (turn.type \in {"ChallengeResolve", "BlockChallengeResolve", "ActionResolve",
                    "ExchangeResolve", "ExchangeTwoResolve"}) =>
        /\ action_mask(Env) = {LoseMoveOf(c) : c \in RolesHeld(turn.player)}
        /\ Cardinality(action_mask(Env)) = Cardinality(RolesHeld(turn.player))
        /\ error = "none" => RolesHeld(turn.player) # {}

\* The responder returns a card from a hand of two roles, one of them held twice
LoseMoveSetWitness ==
    /\ turn.type = "ExchangeResolve"
    /\ Cardinality(RolesHeld(turn.player)) = 2
    /\ \E c \in CARD : players[turn.player].cards[c] >= 2
    /\ Cardinality(action_mask(Env)) = 2

\* C30: EndTurn keeps every record of the turn: the action record, the
\* challenge record whenever a Call was made in the Challenge phase, the block
\* record whenever a block was declared, and the block-challenge record
\* whenever a Call was made in BlockChallenge, whatever path the turn took.
\* Step by step: a call or a block writes its record, and every later state
\* object of the turn, EndTurn included, carries the records of the one before.
TurnPhases ==
    {"Challenge", "ChallengeResolve", "ForeignAidBlock", "TargetBlock",
     "BlockChallenge", "BlockChallengeResolve", "ActionResolve",
     "ExchangeResolve", "ExchangeTwoResolve"}

\* The latest step led from one state object of a turn to the next of that turn
WithinTurn ==
    /\ error = "none"
    /\ prev.turn.type \in TurnPhases
    /\ last \notin {NoneMove, IllegalMark}
    /\ turn.type \in TurnPhases \cup {"EndTurn"}

RecordsWritten ==
    /\ (WithinTurn /\ prev.turn.type = "Challenge" /\ last[1] = "CHALLENGE_CALL") =>
           /\ turn.challenge.type = "action"
           /\ turn.challenge.challenger = prev.turn.player
    /\ (WithinTurn /\ prev.turn.type \in {"ForeignAidBlock", "TargetBlock"}
        /\ last[1] # "BLOCK_PASS") =>
           turn.block = BlockInfo(prev.turn.player, last[1])
    /\ (WithinTurn /\ prev.turn.type = "BlockChallenge"
        /\ last[1] = "CHALLENGE_CALL") =>
           /\ turn.block_challenge.type = "block"
           /\ turn.block_challenge.challenger = prev.turn.player

BlockRecordsKept ==
    WithinTurn =>
        /\ turn.act = prev.turn.act
        /\ prev.turn.block # NoBlock => turn.block = prev.turn.block
        /\ prev.turn.block_challenge # NoChallenge =>
               turn.block_challenge = prev.turn.block_challenge

ChallengeRecordKept ==
    WithinTurn =>
        (prev.turn.challenge # NoChallenge => turn.challenge = prev.turn.challenge)

RecordsKept == RecordsWritten /\ BlockRecordsKept /\ ChallengeRecordKept

\* The part of C30 the code keeps: the action, block and block-challenge records
OtherRecordsKept == RecordsWritten /\ BlockRecordsKept

\* A Steal nobody blocked cost a player its last card, which only the loser of
\* a Call in Challenge gives up, and its EndTurn shows no challenge record
ChallengeRecordLost ==
    /\ turn.type = "EndTurn"
    /\ error = "none"
    /\ turn.act.action = "STEAL"
    /\ turn.challenge = NoChallenge
    /\ turn.block = NoBlock
    /\ Total(discard) = Total(begin.discard) + 1

(***************************************************************************)
(* Pass flags, deck, coins and agents                                      *)
(***************************************************************************)
\* C31: each pass sets the flag of its own round only: a Pass in Challenge the
\* passer's challenge_passed, a Pass in ForeignAidBlock or TargetBlock its
\* block_passed, a Pass in BlockChallenge its block_challenge_passed; no pass
\* changes a flag of another kind of round.  Read in the passes that do not end
\* the turn, whose flags are still standing in the next state.
Flags(P, q) ==
    [challenge       |-> P[q].challenge_passed,
     block           |-> P[q].block_passed,
     block_challenge |-> P[q].block_challenge_passed]

RoundFlag(type) ==
    CASE type = "Challenge" -> "challenge"
      [] type \in {"ForeignAidBlock", "TargetBlock"} -> "block"
      [] type = "BlockChallenge" -> "block_challenge"

PassedOn(types) ==
    /\ error = "none"
    /\ prev.turn.type \in types
    /\ last[1] \in {"CHALLENGE_PASS", "BLOCK_PASS"}
    /\ turn.type \in TurnPhases

OwnFlagSet(types) ==
    PassedOn(types) =>
        /\ Flags(players, prev.turn.player)
             = [Flags(prev.players, prev.turn.player)
                  EXCEPT ![RoundFlag(prev.turn.type)] = TRUE]
        /\ \A q \in Seats \ {prev.turn.player} :
               Flags(players, q) = Flags(prev.players, q)

PassSetsOwnFlag ==
    OwnFlagSet({"Challenge", "ForeignAidBlock", "TargetBlock", "BlockChallenge"})

\* The part of C31 the code keeps: the passes of the action's own rounds
ActionPassSetsOwnFlag ==
    OwnFlagSet({"Challenge", "ForeignAidBlock", "TargetBlock"})

\* A pass in BlockChallenge that hands the round to the next player
BlockChallengePassed == PassedOn({"BlockChallenge"})

\* No state ever shows a block_challenge_passed flag
NeverBlockChallengePassed ==
    \A q \in Seats : ~players[q].block_challenge_passed

\* C32: in every Start state all three pass flags of every player are False,
\* also after turns in which players were eliminated and removed.
NoFlags(P, q) ==
    /\ ~P[q].challenge_passed
    /\ ~P[q].block_passed
    /\ ~P[q].block_challenge_passed

FlagsClearAtStart ==
    turn.type = "Start" => \A q \in Seats : NoFlags(players, q)

\* A Start that follows the removal of an eliminated player, reached from an
\* EndTurn in which a flag was still standing
FlagsClearWitness ==
    /\ turn.type = "Start"
    /\ prev.turn.type = "EndTurn"
    /\ \E q \in Seats : ~NoFlags(prev.players, q)

\* C33: the deck changes only in a transition that proves a truly held role
\* (putback then draw) or in an Exchange (two draws, two putbacks); every other
\* transition, every card loss by lose(), every coin action, every Pass and
\* every block declaration included, leaves the deck unchanged.
ExchangeDraw ==
    /\ prev.turn.act.action = "EXCHANGE"
    /\ \/ /\ prev.turn.type = "Challenge"
          /\ last[1] = "CHALLENGE_PASS"
          /\ LivingAfter(prev.players, prev.turn.act.actor, prev.turn.player) = {}
       \/ /\ prev.turn.type = "ChallengeResolve"
          /\ prev.turn.challenge.loser # prev.turn.act.actor
          /\ last \in LoseMoves

ExchangeReturn ==
    /\ prev.turn.type \in ExchangePhases
    /\ last \in LoseMoves

DeckFrame ==
    (InGame /\ prev.turn.type # "None") =>
        /\ ~(ProvenClaim \/ ExchangeDraw \/ ExchangeReturn) => deck = prev.deck
        /\ (error = "none" /\ prev.turn.type \in LossSteps /\ last \in LoseMoves
            /\ ~ExchangeDraw) =>
               /\ deck = prev.deck
               /\ Total(discard) = Total(prev.discard) + 1
        /\ (error = "none" /\ ProvenClaim) => Len(deck) = Len(prev.deck)
        /\ (error = "none" /\ ExchangeDraw) => Len(deck) = Len(prev.deck) - 2
        /\ (error = "none" /\ ExchangeReturn) => Len(deck) = Len(prev.deck) + 1

\* A challenger gave up a card: the proof before it had moved the deck, the
\* loss did not
DeckFrameWitness ==
    /\ error = "none"
    /\ prev.turn.type = "ChallengeResolve"
    /\ last \in LoseMoves
    /\ prev.turn.challenge.loser # prev.turn.act.actor
    /\ prev.turn.act.action # "EXCHANGE"
    /\ deck = prev.deck
    /\ deck # begin.deck

\* C34: for every non-empty deck, draw succeeds, removes exactly one card, and
\* every role whose count in the deck is positive is a possible result.
\* Stated of the deck of every state of a game.
DrawRemovesOne ==
    \A r \in draw(deck) :
        /\ Len(r.deck) = Len(deck) - 1
        /\ \A c \in CARD :
               CountIn(r.deck, c) = CountIn(deck, c) - (IF c = r.card THEN 1 ELSE 0)

DrawCoversDeck ==
    (InGame /\ deck # <<>>) =>
        /\ draw(deck) # {}
        /\ DrawRemovesOne
        /\ \A c \in CARD :
               CountIn(deck, c) > 0 => \E r \in draw(deck) : r.card = c

\* The part of C34 the code keeps: a draw that succeeds removes exactly one
\* card, and a deck of two or more cards can be drawn from
DrawFromTwo ==
    InGame =>
        /\ DrawRemovesOne
        /\ Len(deck) >= 2 => draw(deck) # {}

\* A deck whose last card is the only one of its role: no draw returns it
LastCardOutOfReach ==
    /\ InGame
    /\ Len(deck) >= 2
    /\ CountIn(deck, deck[Len(deck)]) = 1
    /\ \A r \in draw(deck) : r.card # deck[Len(deck)]

\* A deck of one card: the draw raises
OneCardDeck == InGame /\ Len(deck) = 1 /\ draw(deck) = {}

\* C35: next_alive never fails during play. For a player that has another
\* living player it returns the first seat after the caller that holds a card,
\* and no step evaluates it for a player left alone: no reachable state carries
\* the PlayerError, the single survivor being found by the agent count first
NextAliveNeverFails ==
    /\ error # "PlayerError"
    /\ InGame =>
           \A q \in Seats :
               (AliveSeats \ {q} # {}) =>
                   LET na == next_alive(players, Cardinality(Seats), q)
                   IN  /\ na # NoPlayer
                       /\ na # q
                       /\ alive(players, na)
                       /\ na = FirstLivingAfter(q)

\* A game of three brought down to its last player without an error: the walk
\* from the survivor would come back to it, and the winner was declared
\* without asking
LastPlayerStanding ==
    /\ InGame
    /\ error = "none"
    /\ Cardinality(Seats) = 3
    /\ Cardinality(AliveSeats) = 1
    /\ \A q \in AliveSeats :
           /\ next_alive(players, Cardinality(Seats), q) = NoPlayer
           /\ rewards[q] = 1

\* C36: in every reachable state every player's coin balance is an integer
\* from 0 to 12, the bound the observation space declares for the coin entries
MaxObservedCoins == 12

CoinRange ==
    \A q \in Seats : players[q].coins \in 0..MaxObservedCoins

\* Both ends are met: a player taxed up to 12 from 9, and a player emptied
RichestAndPoorest ==
    /\ InGame
    /\ error = "none"
    /\ \E q \in Seats : players[q].coins = MaxObservedCoins
    /\ \E q \in Seats : players[q].coins = 0

\* The latest step took a card from the player whose turn it is
ActorLoss ==
    /\ error = "none"
    /\ prev.turn.type \in LossSteps
    /\ last \in LoseMoves
    /\ prev.turn.player = prev.turn.act.actor

\* C37: in every reachable state at least one player holds a card; within a
\* turn the actor gives up a card only as the loser of the challenge to its
\* own claim, the turn ends in that step, and no other player has lost a card
\* in that turn
SomeoneSurvives ==
    /\ InGame => AliveSeats # {}
    /\ ActorLoss =>
           LET actor == prev.turn.act.actor
           IN  /\ prev.turn.type = "ChallengeResolve"
               /\ prev.turn.challenge.type = "action"
               /\ prev.turn.challenge.loser = actor
               /\ prev.turn.challenge.challenger # actor
               /\ TurnEnded
               /\ begin.turn.player = actor
               /\ Total(players[actor].cards)
                      = Total(begin.players[actor].cards) - 1
               /\ \A q \in Seats \ {actor} :
                      players[q].cards = begin.players[q].cards

\* The actor of a three-player game gave up its last card for a bluff that was
\* called, and the two others hold what they held
ActorOut ==
    /\ ActorLoss
    /\ Cardinality(Seats) = 3
    /\ ~alive(players, prev.turn.act.actor)
    /\ Cardinality(AliveSeats) = 2

\* The members of self.agents
AgentSet == {agents[i] : i \in 1..Len(agents)}

PrevAgentSet == {prev.agents[i] : i \in 1..Len(prev.agents)}

\* A dead player still listed in agents waits for its terminal step: the state
\* is the EndTurn that names it, with its termination flag set
TerminalStepPending ==
    /\ turn.type = "EndTurn"
    /\ turn.player \in AgentSet
    /\ ~alive(players, turn.player)
    /\ terminations[turn.player]

WinnerDeclared == \E w \in AgentSet : rewards[w] = 1

\* C38: in every Start state the agents are exactly the players holding a
\* card, at least two, the Start player among them; a player eliminated in a
\* turn stays listed only until its terminal step, which the state after the
\* turn offers, and that step removes it (and nobody else) before the next
\* Start is created or a winner is declared; the only living player ever
\* removed is the declared winner, last of all
ActiveAgents ==
    /\ Len(agents) = Cardinality(AgentSet)
    /\ turn.type = "Start" =>
           /\ AgentSet = AliveSeats
           /\ Cardinality(AgentSet) >= 2
           /\ turn.player \in AgentSet
    /\ (InGame /\ error = "none") =>
           /\ DOMAIN terminations = AgentSet
           /\ (AgentSet # {}) => AliveSeats \subseteq AgentSet
           /\ (AgentSet \ AliveSeats # {}) =>
                  turn.type # "EndTurn" \/ TerminalStepPending
           /\ WinnerDeclared => AgentSet = AliveSeats
    /\ (prev.turn.type # "None" /\ error = "none") =>
           /\ AgentSet \subseteq PrevAgentSet
           /\ \A q \in PrevAgentSet \ AgentSet :
                  /\ last = NoneMove
                  /\ prev.turn.type = "EndTurn"
                  /\ prev.turn.player = q
                  /\ prev.terminations[q]
                  /\ ~alive(prev.players, q) \/ prev.rewards[q] = 1
                  /\ PrevAgentSet \ AgentSet = {q}

\* A Start of two agents at a table of three, created by the step that
\* removed the third
StartAfterRemoval ==
    /\ turn.type = "Start"
    /\ error = "none"
    /\ last = NoneMove
    /\ prev.turn.type = "EndTurn"
    /\ ~alive(prev.players, prev.turn.player)
    /\ Cardinality(PrevAgentSet) = 3
    /\ Cardinality(AgentSet) = 2

\* The cards held by all the players of P
RECURSIVE HandsUpTo(_, _)
HandsUpTo(P, i) ==
    IF i = 0 THEN 0 ELSE Total(P[i - 1].cards) + HandsUpTo(P, i - 1)

HeldCards(P) == HandsUpTo(P, Cardinality(DOMAIN P))

\* A Start state with a turn played before it: begin is the Start it began at
BetweenStarts ==
    /\ error = "none"
    /\ turn.type = "Start"
    /\ begin.turn.type = "Start"
    /\ "Start" \in phases

CallResolves == {"ChallengeResolve", "BlockChallengeResolve"}

\* What the turn between the two Starts contained
TurnCalled == phases \cap CallResolves # {}

TurnCoup == TurnAct.action = "COUP"

TurnAssassinated ==
    TurnAct.action = "ASSASSINATE" /\ "ActionResolve" \in phases

\* C39: the cards held by all players at a Start are never more than at the
\* Start of the turn before (and so than at any earlier Start), and fewer when
\* that turn contained a Coup, a Call (each Call leads to the resolve state
\* the turn must step from), or an Assassinate that took effect
HeldNeverGrows ==
    /\ (error = "none" /\ last = <<"CHALLENGE_CALL", 0>>) =>
           /\ prev.turn.type \in {"Challenge", "BlockChallenge"}
           /\ turn.type \in CallResolves
    /\ BetweenStarts =>
           /\ HeldCards(players) <= HeldCards(begin.players)
           /\ (TurnCoup \/ TurnCalled \/ TurnAssassinated) =>
                  HeldCards(players) < HeldCards(begin.players)

\* A turn that cost two cards: the block of the Assassinate was called and
\* fell, and the Assassinate took effect
TwoCardsInOneTurn ==
    /\ BetweenStarts
    /\ TurnCalled
    /\ TurnAssassinated
    /\ HeldCards(players) = HeldCards(begin.players) - 2

\* A turn with a Coup, costing one card
CoupCostsACard ==
    /\ BetweenStarts
    /\ TurnCoup
    /\ HeldCards(players) = HeldCards(begin.players) - 1

====
